---- MODULE Spec2Model ----
(***************************************************************************)
(* A model of the ePayco checkout SDK:                                     *)
(*   - validateEpaycoSignature, the confirmation-webhook signature check;  *)
(*   - getEpaycoAuthToken and createEpaycoSession, the login exchange and  *)
(*     the session orchestration, in the two variants the repository      *)
(*     carries (the one that also exports validateEpaycoSignature, and     *)
(*     src/server/index.ts);                                               *)
(*   - mapPaymentDetailsToEpaycoRequest, which builds the all-string       *)
(*     request body of the session-create call;                            *)
(*   - loadEpaycoScript and openEpaycoCheckout, the browser-side script    *)
(*     loader and the call that opens the checkout, in their two variants. *)
(*                                                                         *)
(* JavaScript strings that the code inspects character by character, or    *)
(* hashes, are sequences of one-character strings.  Error messages are     *)
(* sequences of chunks: the code's literal prefixes and the texts it       *)
(* splices in with template literals.                                      *)
(***************************************************************************)
EXTENDS Integers, Sequences, FiniteSets, TLC

VARIABLES
    vSig,       \* verifier: the receivedSignature argument
    vMat,       \* verifier: the constructionData argument (six fields)
    vOut,       \* verifier: outcome of the call on vSig/vMat, or pending
    vBase,      \* verifier: inputs and outcome of the call before a tamper
    vTampers,   \* verifier: single-character replacements applied so far
    vLog,       \* verifier: arguments and outcome of every call so far, in order
    inv,        \* createEpaycoSession invocations: id -> its state
    net,        \* the POST requests issued so far, in order
    mDetails,   \* canonicalizer: the details argument
    mTest,      \* canonicalizer: the isTestMode argument
    mBody,      \* canonicalizer: the request body returned, or pending
    clientImpl, \* browser: which variant of the client module the page runs
    epaycoLoadPromise,  \* browser: the module-level memo (0 is null)
    promises,   \* browser: the promises created so far, id -> state
    dom,        \* browser: the script elements the document holds, in order
    ePayco,     \* browser: what window.ePayco currently is
    calls,      \* browser: the loadEpaycoScript calls made so far, in order
    opens,      \* browser: the openEpaycoCheckout invocations, in order
    native      \* browser: the calls made into ePayco's library, in order

verifyVars == <<vSig, vMat, vOut, vBase, vTampers, vLog>>
sessionVars == <<inv, net>>
mapVars == <<mDetails, mTest, mBody>>
clientVars == <<clientImpl, epaycoLoadPromise, promises, dom, ePayco, calls,
                opens, native>>
vars == <<vSig, vMat, vOut, vBase, vTampers, vLog, inv, net, mDetails, mTest, mBody,
          clientImpl, epaycoLoadPromise, promises, dom, ePayco, calls,
          opens, native>>

\* the parts of the state a specification does not exercise
VerifyIdle ==
    /\ vSig = <<"undefined">>
    /\ vMat = <<>>
    /\ vOut = [kind |-> "pending"]
    /\ vBase = [kind |-> "none"]
    /\ vTampers = 0
    /\ vLog = <<>>

SessionIdle == inv = <<>> /\ net = <<>>

MapIdle ==
    /\ mDetails = [t |-> "undefined"]
    /\ mTest = FALSE
    /\ mBody = [kind |-> "pending"]

ClientIdle ==
    /\ clientImpl = "none"
    /\ epaycoLoadPromise = 0
    /\ promises = <<>>
    /\ dom = <<>>
    /\ ePayco = "undefined"
    /\ calls = <<>>
    /\ opens = <<>>
    /\ native = <<>>

----------------------------------------------------------------------------
(* JavaScript values                                                       *)

\* undefined and null: tokens that are not character sequences
Undefined == <<"undefined">>
Null == <<"null">>

\* !x for a value that is undefined, null or a string
Falsy(v) == v = Undefined \/ v = Null \/ v = <<>>

\* `${v}`: how a template literal renders a value
TemplateString(v) ==
    IF v = Undefined THEN <<"u", "n", "d", "e", "f", "i", "n", "e", "d">>
    ELSE IF v = Null THEN <<"n", "u", "l", "l">>
    ELSE v

----------------------------------------------------------------------------
(* The digest.  createHash("sha256").update(s).digest("hex") is Node's     *)
(* crypto library; it is modelled as an ideal hash: a deterministic,       *)
(* collision-free map from strings to lowercase hexadecimal strings.       *)

HexOf(c) ==
    CASE c = "0" -> <<"3", "0">> [] c = "1" -> <<"3", "1">>
      [] c = "2" -> <<"3", "2">> [] c = "3" -> <<"3", "3">>
      [] c = "5" -> <<"3", "5">> [] c = "7" -> <<"3", "7">>
      [] c = "9" -> <<"3", "9">> [] c = "C" -> <<"4", "3">>
      [] c = "O" -> <<"4", "f">> [] c = "P" -> <<"5", "0">>
      [] c = "^" -> <<"5", "e">> [] c = "a" -> <<"6", "1">>
      [] c = "b" -> <<"6", "2">> [] c = "c" -> <<"6", "3">>
      [] c = "d" -> <<"6", "4">> [] c = "e" -> <<"6", "5">>
      [] c = "f" -> <<"6", "6">> [] c = "i" -> <<"6", "9">>
      [] c = "l" -> <<"6", "c">> [] c = "n" -> <<"6", "e">>
      [] c = "u" -> <<"7", "5">>

RECURSIVE Sha256Hex(_)
Sha256Hex(s) ==
    IF s = <<>> THEN <<>> ELSE HexOf(Head(s)) \o Sha256Hex(Tail(s))

\* the same digest rendered in upper case (what the code does not produce)
UpperHexChar(c) ==
    CASE c = "a" -> "A" [] c = "b" -> "B" [] c = "c" -> "C"
      [] c = "d" -> "D" [] c = "e" -> "E" [] c = "f" -> "F"
      [] OTHER -> c

UpperHex(d) == [i \in 1..Len(d) |-> UpperHexChar(d[i])]

----------------------------------------------------------------------------
(* validateEpaycoSignature                                                 *)

FieldNames ==
    <<"p_cust_id_cliente", "p_key", "x_ref_payco", "x_transaction_id",
      "x_amount", "x_currency_code">>

\* a guard that tests x_amount against null only
MissingParameters_amountNullOnly(receivedSignature, d) ==
    \/ Falsy(receivedSignature)
    \/ Falsy(d.p_cust_id_cliente)
    \/ Falsy(d.p_key)
    \/ Falsy(d.x_ref_payco)
    \/ Falsy(d.x_transaction_id)
    \/ d.x_amount = Null
    \/ Falsy(d.x_currency_code)

\* the guard of the early return
MissingParameters(receivedSignature, d) ==
    \/ Falsy(receivedSignature)
    \/ Falsy(d.p_cust_id_cliente)
    \/ Falsy(d.p_key)
    \/ Falsy(d.x_ref_payco)
    \/ Falsy(d.x_transaction_id)
    \/ d.x_amount = Undefined
    \/ d.x_amount = Null
    \/ Falsy(d.x_currency_code)

\* the template literal that builds the string to hash
signatureString(d) ==
    TemplateString(d.p_cust_id_cliente) \o <<"^">> \o
    TemplateString(d.p_key) \o <<"^">> \o
    TemplateString(d.x_ref_payco) \o <<"^">> \o
    TemplateString(d.x_transaction_id) \o <<"^">> \o
    TemplateString(d.x_amount) \o <<"^">> \o
    TemplateString(d.x_currency_code)

calculatedSignature(d) == Sha256Hex(signatureString(d))

\* a comparison that ignores the case of the hexadecimal digits
validateEpaycoSignature_ignoresCase(receivedSignature, d) ==
    IF MissingParameters(receivedSignature, d)
    THEN [kind |-> "return", value |-> FALSE, logged |-> TRUE]
    ELSE [kind |-> "return",
          value |-> (UpperHex(calculatedSignature(d)) = UpperHex(receivedSignature)),
          logged |-> FALSE]

\* a verifier that keeps one hash object for all calls, so that a digest
\* also covers what earlier calls fed it
validateEpaycoSignature_sharedHash(receivedSignature, d) ==
    IF MissingParameters(receivedSignature, d)
    THEN [kind |-> "return", value |-> FALSE, logged |-> TRUE]
    ELSE [kind |-> "return",
          value |-> /\ ~\E n \in 1..Len(vLog) : ~vLog[n].out.logged
                    /\ calculatedSignature(d) = receivedSignature,
          logged |-> FALSE]

\* the function: what it returns, and whether it logged the missing-field
\* diagnostic; no path of it throws
validateEpaycoSignature(receivedSignature, d) ==
    IF MissingParameters(receivedSignature, d)
    THEN [kind |-> "return", value |-> FALSE, logged |-> TRUE]
    ELSE [kind |-> "return",
          value |-> (calculatedSignature(d) = receivedSignature),
          logged |-> FALSE]

----------------------------------------------------------------------------
(* The verifier's callers: a webhook endpoint that passes whatever the     *)
(* request carried, and a party that alters one character of a message     *)
(* that verified.                                                          *)

MaxTampers == 1

Pending == [kind |-> "pending"]
NoBase == [kind |-> "none"]

\* field values of the confirmation data in the README's example shape
PresentValues(f) ==
    CASE f = "p_cust_id_cliente" -> {<<"1", "2", "3">>}
      [] f = "p_key" -> {<<"a", "b", "c">>}
      [] f = "x_ref_payco" -> {<<"9", "9", "9">>}
      [] f = "x_transaction_id" -> {<<"7", "7">>}
      [] f = "x_amount" -> {<<"5", "0", "0", "0">>, <<"0">>}
      [] f = "x_currency_code" -> {<<"C", "O", "P">>}

FieldValues(f) == {Undefined, Null, <<>>} \cup PresentValues(f)

Materials ==
    [p_cust_id_cliente : FieldValues("p_cust_id_cliente"),
     p_key : FieldValues("p_key"),
     x_ref_payco : FieldValues("x_ref_payco"),
     x_transaction_id : FieldValues("x_transaction_id"),
     x_amount : FieldValues("x_amount"),
     x_currency_code : FieldValues("x_currency_code")]

\* joins of the six fields a sender might have signed
JoinWith(d, order, sep) ==
    TemplateString(d[order[1]]) \o sep \o TemplateString(d[order[2]]) \o sep \o
    TemplateString(d[order[3]]) \o sep \o TemplateString(d[order[4]]) \o sep \o
    TemplateString(d[order[5]]) \o sep \o TemplateString(d[order[6]])

ReverseOrder == [i \in 1..6 |-> FieldNames[7 - i]]

SignedStrings(d) ==
    {JoinWith(d, FieldNames, <<"^">>),
     JoinWith(d, ReverseOrder, <<"^">>),
     JoinWith(d, FieldNames, <<>>)}

Signatures(d) ==
    {Undefined, Null, <<>>}
    \cup {Sha256Hex(s) : s \in SignedStrings(d)}
    \cup {UpperHex(Sha256Hex(s)) : s \in SignedStrings(d)}

FieldTamperChars == {"0", "a", "^"}
SigTamperChars == {"0", "f"}

Replace(s, i, c) == [s EXCEPT ![i] = c]

VerifyInit ==
    /\ vMat \in Materials
    /\ vSig \in Signatures(vMat)
    /\ vOut = Pending
    /\ vBase = NoBase
    /\ vTampers = 0
    /\ vLog = <<>>
    /\ SessionIdle
    /\ MapIdle
    /\ ClientIdle

\* the endpoint calls validateEpaycoSignature on the inputs it holds
VerifyCall ==
    /\ vOut = Pending
    /\ vOut' = validateEpaycoSignature(vSig, vMat)
    /\ vLog' = Append(vLog, [sig |-> vSig, mat |-> vMat, out |-> vOut'])
    /\ UNCHANGED <<vSig, vMat, vBase, vTampers>>
    /\ UNCHANGED <<sessionVars, mapVars, clientVars>>

CanTamper ==
    /\ vOut # Pending
    /\ vTampers < MaxTampers
    /\ vTampers = 0 => vOut.value = TRUE

Snapshot == IF vTampers = 0 THEN [kind |-> "call", sig |-> vSig, mat |-> vMat, out |-> vOut]
            ELSE vBase

\* one character of one material field is replaced by another character
TamperField ==
    /\ CanTamper
    /\ \E i \in 1..6 :
         LET f == FieldNames[i] IN
         /\ ~Falsy(vMat[f])
         /\ \E p \in 1..Len(vMat[f]) : \E c \in FieldTamperChars :
              /\ c # vMat[f][p]
              /\ vMat' = [vMat EXCEPT ![f] = Replace(vMat[f], p, c)]
    /\ vBase' = Snapshot
    /\ vTampers' = vTampers + 1
    /\ vOut' = Pending
    /\ UNCHANGED <<vSig, vLog>>
    /\ UNCHANGED <<sessionVars, mapVars, clientVars>>

\* one character of the received signature is replaced
TamperSignature ==
    /\ CanTamper
    /\ ~Falsy(vSig)
    /\ \E p \in 1..Len(vSig) : \E c \in SigTamperChars :
         /\ c # vSig[p]
         /\ vSig' = Replace(vSig, p, c)
    /\ vBase' = Snapshot
    /\ vTampers' = vTampers + 1
    /\ vOut' = Pending
    /\ UNCHANGED <<vMat, vLog>>
    /\ UNCHANGED <<sessionVars, mapVars, clientVars>>

VerifyNext == VerifyCall \/ TamperField \/ TamperSignature

SpecVerify == VerifyInit /\ [][VerifyNext]_vars

----------------------------------------------------------------------------
(* Texts, response bodies and errors of the session side                   *)

\* a property that is not there (undefined)
None == "<undefined>"

Truthy(x) == x # None /\ x # ""

\* a || b
Or(a, b) == IF Truthy(a) THEN a ELSE b

\* response.data as axios hands it over: a parsed JSON object, JSON null, the
\* empty string of an empty body, or undefined when there is no response
NullBody == [t |-> "null"]
EmptyBody == [t |-> "empty"]
NoBody == [t |-> "undefined"]

\* data?.f on a body
Field(body, f) == IF body.t = "object" THEN body[f] ELSE None

\* Boolean(data): an object is truthy; null, "" and undefined are not
BodyTruthy(body) == body.t = "object"

AuthPrefix == "ePayco Authentication Failed: "
SessionPrefix == "ePayco Session Creation Failed: "
SdkPrefix == "ePayco SDK: "

\* message.startsWith(prefix) on a message of chunks
StartsWith(message, prefix) == Len(message) > 0 /\ message[1] = prefix

\* a thrown value: an AxiosError (with the response body, if any) or a plain
\* Error
AxiosErr(data, message) == [axios |-> TRUE, data |-> data, message |-> message]
PlainErr(message) == [axios |-> FALSE, data |-> NoBody, message |-> message]

Returns(value) == [kind |-> "return", value |-> value]
Throws(error) == [kind |-> "throw", error |-> error]

\* await axios.post(...): a 2xx response is returned, everything else throws
AxiosPost(resp) ==
    IF resp.kind = "2xx" THEN Returns(resp.data)
    ELSE Throws(AxiosErr(resp.data, <<resp.axiosMessage>>))

----------------------------------------------------------------------------
(* getEpaycoAuthToken                                                      *)

\* a token test that only asks whether the field is there
UsableToken_anyToken(body) == BodyTruthy(body) /\ body.token # None

\* response.data && response.data.token
UsableToken(body) == BodyTruthy(body) /\ Truthy(body.token)

\* the fallback chain with the message field tried first
LoginErrorMessage_messageFirst(body) ==
    Or(Field(body, "message"),
       Or(Field(body, "error"),
          Or(Field(body, "textResponse"),
             Or(Field(body, "titleResponse"),
                "Invalid token or unknown error response during authentication."))))

\* the else branch of the token test: the message spliced after the tag
LoginErrorMessage(body) ==
    Or(Field(body, "error"),
       Or(Field(body, "textResponse"),
          Or(Field(body, "titleResponse"),
             Or(Field(body, "message"),
                "Invalid token or unknown error response during authentication."))))

\* the try block
LoginTry(resp) ==
    LET posted == AxiosPost(resp) IN
    IF posted.kind = "throw" THEN posted
    ELSE IF UsableToken(posted.value) THEN Returns(posted.value.token)
    ELSE Throws(PlainErr(<<AuthPrefix, LoginErrorMessage(posted.value)>>))

\* the catch block: every thrown value is rethrown as a new Error
LoginCatch(error) ==
    IF error.axios
    THEN LET errorData == error.data
             serverMessage ==
                 Or(Field(errorData, "message"),
                    Or(Field(errorData, "error"),
                       Or(Field(errorData, "textResponse"),
                          Or(error.message[1],
                             "Network error or ePayco server issue during authentication."))))
         IN  Throws(PlainErr(<<AuthPrefix, serverMessage>>))
    ELSE Throws(PlainErr(<<AuthPrefix>> \o error.message))

\* an authenticator that swallows the failure and returns undefined
getEpaycoAuthToken_returnsUndefined(resp) ==
    LET tried == LoginTry(resp) IN
    IF tried.kind = "throw" THEN Returns(None) ELSE tried

getEpaycoAuthToken(resp) ==
    LET tried == LoginTry(resp) IN
    IF tried.kind = "throw" THEN LoginCatch(tried.error) ELSE tried

\* src/server/index.ts
LoginErrorMessage_srv(body) ==
    Or(Field(body, "error"),
       Or(Field(body, "textResponse"),
          Or(Field(body, "titleResponse"),
             Or(Field(body, "message"),
                "Failed to authenticate with ePayco: Invalid token or error response."))))

LoginTry_srv(resp) ==
    LET posted == AxiosPost(resp) IN
    IF posted.kind = "throw" THEN posted
    ELSE IF UsableToken(posted.value) THEN Returns(posted.value.token)
    ELSE Throws(PlainErr(<<AuthPrefix, LoginErrorMessage_srv(posted.value)>>))

LoginCatch_srv(error) ==
    IF error.axios
    THEN LET serverMessage ==
                 Or(Field(error.data, "message"),
                    "Network error or ePayco server issue during authentication.")
         IN  Throws(PlainErr(<<AuthPrefix, serverMessage>>))
    ELSE Throws(PlainErr(<<AuthPrefix>> \o error.message))

getEpaycoAuthToken_srv(resp) ==
    LET tried == LoginTry_srv(resp) IN
    IF tried.kind = "throw" THEN LoginCatch_srv(tried.error) ELSE tried

----------------------------------------------------------------------------
(* mapPaymentDetailsToEpaycoRequest (the same code in both variants).      *)
(* JavaScript values carry their type: a string is a sequence of           *)
(* characters, a number an integer, undefined and null are NoBody and      *)
(* NullBody.  An object under construction is the sequence of its          *)
(* key/value entries in insertion order.                                   *)

Str(s) == [t |-> "string", v |-> s]
Num(n) == [t |-> "number", v |-> n]
Bool(b) == [t |-> "boolean", v |-> b]
Arr(items) == [t |-> "array", list |-> items]
Obj(entries) == [t |-> "object", entries |-> entries]

Digits == <<"0", "1", "2", "3", "4", "5", "6", "7", "8", "9">>

\* Number.prototype.toString for an integer
RECURSIVE DecimalString(_)
DecimalString(n) ==
    IF n < 0 THEN <<"-">> \o DecimalString(0 - n)
    ELSE IF n < 10 THEN <<Digits[n + 1]>>
    ELSE DecimalString(n \div 10) \o <<Digits[(n % 10) + 1]>>

\* a conversion that lets a number through as it is
String_keepsNumbers(v) ==
    CASE v.t = "string" -> v
      [] v.t = "number" -> v
      [] v.t = "boolean" ->
            Str(IF v.v THEN <<"t", "r", "u", "e">> ELSE <<"f", "a", "l", "s", "e">>)
      [] v.t = "undefined" -> Str(<<"u", "n", "d", "e", "f", "i", "n", "e", "d">>)
      [] v.t = "null" -> Str(<<"n", "u", "l", "l">>)
      [] v.t = "array" -> Str(<<"[array]">>)
      [] OTHER -> Str(<<"[object Object]">>)

\* String(v)
String(v) ==
    CASE v.t = "string" -> v
      [] v.t = "number" -> Str(DecimalString(v.v))
      [] v.t = "boolean" ->
            Str(IF v.v THEN <<"t", "r", "u", "e">> ELSE <<"f", "a", "l", "s", "e">>)
      [] v.t = "undefined" -> Str(<<"u", "n", "d", "e", "f", "i", "n", "e", "d">>)
      [] v.t = "null" -> Str(<<"n", "u", "l", "l">>)
      [] v.t = "array" -> Str(<<"[array]">>)
      [] OTHER -> Str(<<"[object Object]">>)

LowerLetters ==
    <<"a", "b", "c", "d", "e", "f", "g", "h", "i", "j", "k", "l", "m",
      "n", "o", "p", "q", "r", "s", "t", "u", "v", "w", "x", "y", "z">>
UpperLetters ==
    <<"A", "B", "C", "D", "E", "F", "G", "H", "I", "J", "K", "L", "M",
      "N", "O", "P", "Q", "R", "S", "T", "U", "V", "W", "X", "Y", "Z">>

UpperChar(c) ==
    IF \E k \in 1..26 : LowerLetters[k] = c
    THEN UpperLetters[CHOOSE k \in 1..26 : LowerLetters[k] = c]
    ELSE c

LowerChar(c) ==
    IF \E k \in 1..26 : UpperLetters[k] = c
    THEN LowerLetters[CHOOSE k \in 1..26 : UpperLetters[k] = c]
    ELSE c

\* s.toUpperCase() and s.toLowerCase() on a string value
toUpperCase(s) == Str([k \in 1..Len(s.v) |-> UpperChar(s.v[k])])
toLowerCase(s) == Str([k \in 1..Len(s.v) |-> LowerChar(s.v[k])])

\* one key/value entry of an object literal
Entry(k, v) == [k |-> k, v |-> v]

\* ...(cond && { k: v }): spreading false adds nothing
SpreadIf(cond, k, v) == IF cond THEN <<Entry(k, v)>> ELSE <<>>

HasKey(entries, k) == \E n \in 1..Len(entries) : entries[n].k = k

\* obj[k]
Get(entries, k) ==
    IF HasKey(entries, k)
    THEN entries[CHOOSE n \in 1..Len(entries) : entries[n].k = k].v
    ELSE NoBody

\* obj[k] = v: an existing key keeps its place, a new one goes last
SetKey(entries, k, v) ==
    IF HasKey(entries, k)
    THEN [n \in 1..Len(entries) |->
             IF entries[n].k = k THEN Entry(k, v) ELSE entries[n]]
    ELSE Append(entries, Entry(k, v))

Keys(entries) == [n \in 1..Len(entries) |-> entries[n].k]

\* array.map(f)
MapString(list) == [n \in 1..Len(list) |-> String(list[n])]

ExtraKey(n) ==
    <<"extra1", "extra2", "extra3", "extra4", "extra5",
      "extra6", "extra7", "extra8", "extra9", "extra10">>[n]

\* the value x && y takes for an array x: arrays are truthy, undefined is not
ArrayNonEmpty(x) == x.t = "array" /\ Len(x.list) > 0

\* a receiver mapping that tests the optional amounts for truthiness
MapReceiver_truthyOptionals(receiver) ==
    Obj(<<Entry("merchantId", String(receiver.merchantId)),
          Entry("amount", String(receiver.amount))>>
        \o SpreadIf(receiver.taxBase.t = "number" /\ receiver.taxBase.v # 0,
                    "taxBase", String(receiver.taxBase))
        \o SpreadIf(receiver.tax.t = "number" /\ receiver.tax.v # 0,
                    "tax", String(receiver.tax))
        \o SpreadIf(receiver.fee.t = "number" /\ receiver.fee.v # 0,
                    "fee", String(receiver.fee)))

\* the object a receiver is mapped to
MapReceiver(receiver) ==
    Obj(<<Entry("merchantId", String(receiver.merchantId)),
          Entry("amount", String(receiver.amount))>>
        \o SpreadIf(receiver.taxBase.t # "undefined", "taxBase", String(receiver.taxBase))
        \o SpreadIf(receiver.tax.t # "undefined", "tax", String(receiver.tax))
        \o SpreadIf(receiver.fee.t # "undefined", "fee", String(receiver.fee)))

\* the billing object of the payload
MapBilling(billing) ==
    Obj(<<Entry("email", String(billing.email)),
          Entry("name", String(billing.name)),
          Entry("address", String(billing.address)),
          Entry("typeDoc", String(billing.typeDoc)),
          Entry("numberDoc", String(billing.numberDoc)),
          Entry("mobilePhone", String(billing.mobilePhone))>>
        \o SpreadIf(billing.callingCode.t # "undefined", "callingCode",
                    String(billing.callingCode)))

\* core properties with the test flag left a boolean
CoreFields_nativeTest(details, isTestMode) ==
    <<Entry("test", isTestMode),
      Entry("ip", String(details.ip)),
      Entry("name", String(details.name)),
      Entry("description", String(details.description)),
      Entry("currency", toUpperCase(String(details.currency))),
      Entry("amount", String(details.amount)),
      Entry("country", toUpperCase(String(details.country))),
      Entry("lang", toUpperCase(String(details.lang))),
      Entry("response", String(details.responseUrl)),
      Entry("confirmation", String(details.confirmationUrl)),
      Entry("checkout_version", Str(<<"2">>))>>

\* core properties with lang copied in the case it came in
CoreFields_langAsGiven(details, isTestMode) ==
    <<Entry("test", toLowerCase(String(isTestMode))),
      Entry("ip", String(details.ip)),
      Entry("name", String(details.name)),
      Entry("description", String(details.description)),
      Entry("currency", toUpperCase(String(details.currency))),
      Entry("amount", String(details.amount)),
      Entry("country", toUpperCase(String(details.country))),
      Entry("lang", String(details.lang)),
      Entry("response", String(details.responseUrl)),
      Entry("confirmation", String(details.confirmationUrl)),
      Entry("checkout_version", Str(<<"2">>))>>

\* the first eleven properties of the object literal
CoreFields(details, isTestMode) ==
    <<Entry("test", toLowerCase(String(isTestMode))),
      Entry("ip", String(details.ip)),
      Entry("name", String(details.name)),
      Entry("description", String(details.description)),
      Entry("currency", toUpperCase(String(details.currency))),
      Entry("amount", String(details.amount)),
      Entry("country", toUpperCase(String(details.country))),
      Entry("lang", toUpperCase(String(details.lang))),
      Entry("response", String(details.responseUrl)),
      Entry("confirmation", String(details.confirmationUrl)),
      Entry("checkout_version", Str(<<"2">>))>>

\* root-level billing properties with the document fields crossed
RootBillingFields_crossedDocs(billing) ==
    <<Entry("nameBilling", String(billing.name)),
      Entry("emailBilling", String(billing.email)),
      Entry("addressBilling", String(billing.address)),
      Entry("typeDocBilling", String(billing.numberDoc)),
      Entry("numberDocBilling", String(billing.typeDoc)),
      Entry("mobilephoneBilling", String(billing.mobilePhone))>>

\* the root-level billing properties
RootBillingFields(billing) ==
    <<Entry("nameBilling", String(billing.name)),
      Entry("emailBilling", String(billing.email)),
      Entry("addressBilling", String(billing.address)),
      Entry("typeDocBilling", String(billing.typeDoc)),
      Entry("numberDocBilling", String(billing.numberDoc)),
      Entry("mobilephoneBilling", String(billing.mobilePhone))>>

\* conditional spreads that test the values for truthiness
OptionalFields_truthy(details) ==
    SpreadIf(details.invoice.t = "string" /\ details.invoice.v # <<>>,
             "invoice", String(details.invoice))
    \o SpreadIf(details.taxBase.t = "number" /\ details.taxBase.v # 0,
                "taxBase", String(details.taxBase))
    \o SpreadIf(details.tax.t = "number" /\ details.tax.v # 0, "tax", String(details.tax))
    \o SpreadIf(details.taxIco.t = "number" /\ details.taxIco.v # 0,
                "taxIco", String(details.taxIco))
    \o (IF ArrayNonEmpty(details.methodsDisable)
        THEN <<Entry("methodsDisable", Arr(MapString(details.methodsDisable.list)))>>
        ELSE <<>>)

\* the conditional spreads of invoice, taxBase, tax, taxIco, methodsDisable
OptionalFields(details) ==
    SpreadIf(details.invoice.t # "undefined", "invoice", String(details.invoice))
    \o SpreadIf(details.taxBase.t # "undefined", "taxBase", String(details.taxBase))
    \o SpreadIf(details.tax.t # "undefined", "tax", String(details.tax))
    \o SpreadIf(details.taxIco.t # "undefined", "taxIco", String(details.taxIco))
    \o (IF ArrayNonEmpty(details.methodsDisable)
        THEN <<Entry("methodsDisable", Arr(MapString(details.methodsDisable.list)))>>
        ELSE <<>>)

\* the conditional spread of splitPayment
SplitPaymentField(details) ==
    IF details.splitPayment.t = "object"
    THEN <<Entry("splitPayment",
                 Obj(<<Entry("type", String(details.splitPayment.type)),
                       Entry("receivers",
                             Arr([n \in 1..Len(details.splitPayment.receivers.list) |->
                                     MapReceiver(details.splitPayment.receivers.list[n])]))>>))>>
    ELSE <<>>

\* the object literal stringifiedPayload is initialised with
PayloadLiteral(details, isTestMode) ==
    CoreFields(details, isTestMode)
    \o <<Entry("billing", MapBilling(details.billing))>>
    \o RootBillingFields(details.billing)
    \o OptionalFields(details)
    \o SplitPaymentField(details)

\* a loop that numbers the copied extras consecutively
RECURSIVE CopyExtras_renumbered(_, _, _)
CopyExtras_renumbered(payload, extras, n) ==
    IF n > 10 THEN payload
    ELSE LET value == Get(extras.entries, ExtraKey(n))
             copied == Cardinality({m \in 1..10 : HasKey(payload, ExtraKey(m))})
         IN  IF value.t # "undefined" /\ value.t # "null"
             THEN CopyExtras_renumbered(SetKey(payload, ExtraKey(copied + 1), String(value)),
                                        extras, n + 1)
             ELSE CopyExtras_renumbered(payload, extras, n + 1)

\* a copy of every own key of extras, as Object.assign would make it
RECURSIVE CopyExtras_everyKey(_, _, _)
CopyExtras_everyKey(payload, extras, n) ==
    IF n > Len(extras.entries) THEN payload
    ELSE LET e == extras.entries[n] IN
         IF e.v.t # "undefined" /\ e.v.t # "null"
         THEN CopyExtras_everyKey(SetKey(payload, e.k, String(e.v)), extras, n + 1)
         ELSE CopyExtras_everyKey(payload, extras, n + 1)

\* the loop over extra1..extra10, from slot n on
RECURSIVE CopyExtras(_, _, _)
CopyExtras(payload, extras, n) ==
    IF n > 10 THEN payload
    ELSE LET key == ExtraKey(n)
             value == Get(extras.entries, key)
         IN  IF value.t # "undefined" /\ value.t # "null"
             THEN CopyExtras(SetKey(payload, key, String(value)), extras, n + 1)
             ELSE CopyExtras(payload, extras, n + 1)

mapPaymentDetailsToEpaycoRequest(details, isTestMode) ==
    LET stringifiedPayload == PayloadLiteral(details, isTestMode) IN
    Obj(IF details.extras.t = "object"
        THEN CopyExtras(stringifiedPayload, details.extras, 1)
        ELSE stringifiedPayload)

----------------------------------------------------------------------------
(* createEpaycoSession                                                     *)

DEFAULT_EPAYCO_API_BASE_URL == "https://apify.epayco.co"
LOGIN_PATH == "/login"
CREATE_SESSION_PATH == "/payment/session/create"

NoError == <<>>

\* the destructuring default of epaycoApiBaseUrl
ApiBaseUrl(config) ==
    IF config.epaycoApiBaseUrl = None THEN DEFAULT_EPAYCO_API_BASE_URL
    ELSE config.epaycoApiBaseUrl

\* precondition checks that forget paymentDetails
ConfigurationError_keysOnly(config) ==
    IF ~Truthy(config.publicKey) \/ ~Truthy(config.privateKey)
    THEN <<SdkPrefix,
           "Public Key and Private Key are required in CreateEpaycoSessionConfig.">>
    ELSE NoError

\* the checks before the try block: the message thrown, or NoError
ConfigurationError(config) ==
    IF ~Truthy(config.publicKey) \/ ~Truthy(config.privateKey)
    THEN <<SdkPrefix,
           "Public Key and Private Key are required in CreateEpaycoSessionConfig.">>
    ELSE IF ~BodyTruthy(config.paymentDetails)
    THEN <<SdkPrefix,
           "Payment details (paymentDetails) are required in CreateEpaycoSessionConfig.">>
    ELSE NoError

\* the login request getEpaycoAuthToken issues
LoginPost(i, config) ==
    [call |-> i,
     url |-> <<ApiBaseUrl(config), LOGIN_PATH>>,
     authorization |-> <<"Basic", config.publicKey, ":", config.privateKey>>,
     body |-> Obj(<<>>)]

\* a client that sends the login request a second time
LoginRequests_retried(i, config) == <<LoginPost(i, config), LoginPost(i, config)>>

\* what getEpaycoAuthToken puts on the wire: one axios.post, with no retry
\* loop around it and no token kept from an earlier call
LoginRequests(i, config) == <<LoginPost(i, config)>>

\* a session request that carries the token of the latest login answered,
\* whichever invocation it was for
SessionPost_sharedToken(i, config, authToken) ==
    [call |-> i,
     url |-> <<ApiBaseUrl(config), CREATE_SESSION_PATH>>,
     authorization |->
         IF net[Len(net)].url[2] = CREATE_SESSION_PATH
         THEN net[Len(net)].authorization
         ELSE <<"Bearer", authToken>>,
     body |-> mapPaymentDetailsToEpaycoRequest(config.paymentDetails,
                                               Bool(config.isTestMode))]

\* the session-create request; its body is what
\* mapPaymentDetailsToEpaycoRequest makes of paymentDetails and isTestMode
SessionPost(i, config, authToken) ==
    [call |-> i,
     url |-> <<ApiBaseUrl(config), CREATE_SESSION_PATH>>,
     authorization |-> <<"Bearer", authToken>>,
     body |-> mapPaymentDetailsToEpaycoRequest(config.paymentDetails,
                                               Bool(config.isTestMode))]

DataOf(body) == IF body.t = "object" THEN body.data ELSE NoBody
ErrorsOf(body) == IF DataOf(body).t = "object" THEN DataOf(body).errors ELSE NoBody

\* data?.errors && data.errors.length > 0
HasFieldErrors(body) == ErrorsOf(body).t = "array" /\ Len(ErrorsOf(body).list) > 0

\* a join that lists the entries last to first
RECURSIVE JoinFieldErrors_reversed(_, _)
JoinFieldErrors_reversed(list, label) ==
    IF list = <<>> THEN <<>>
    ELSE <<list[Len(list)].errorMessage, label, ToString(list[Len(list)].codError), ")">>
         \o (IF Len(list) > 1 THEN <<", ">> ELSE <<>>)
         \o JoinFieldErrors_reversed(SubSeq(list, 1, Len(list) - 1), label)

\* errors.map(err => `${err.errorMessage} (<label>${err.codError})`).join(", ")
RECURSIVE JoinFieldErrors(_, _)
JoinFieldErrors(list, label) ==
    IF list = <<>> THEN <<>>
    ELSE <<list[1].errorMessage, label, ToString(list[1].codError), ")">>
         \o (IF Len(list) > 1 THEN <<", ">> ELSE <<>>)
         \o JoinFieldErrors(Tail(list), label)

Details(body, label) ==
    IF HasFieldErrors(body)
    THEN <<" Details: ">> \o JoinFieldErrors(ErrorsOf(body).list, label)
    ELSE <<>>

\* reading a property of JSON null
TypeErrorOn(what, property) ==
    PlainErr(<<"Cannot read properties of " \o what \o " (reading '" \o property \o "')">>)

\* the try block from the session POST's response on
SessionTry(resp) ==
    LET posted == AxiosPost(resp) IN
    IF posted.kind = "throw" THEN posted
    ELSE LET body == posted.value IN
         IF body.t = "null" THEN Throws(TypeErrorOn("null", "success"))
         ELSE IF Field(body, "success") = "true" /\ Truthy(Field(DataOf(body), "sessionId"))
         THEN Returns(DataOf(body).sessionId)
         ELSE LET errorMessage ==
                      Or(Field(body, "textResponse"),
                         Or(Field(body, "titleResponse"),
                            "ePayco session creation failed."))
              IN  Throws(PlainErr(<<SessionPrefix, errorMessage>>
                                  \o Details(body, " (field code: ")))

\* the catch block of createEpaycoSession: the message of the Error rethrown
SessionCatch(error) ==
    IF error.axios
    THEN LET errorData == error.data
             fallback == "Network error or ePayco server issue during session creation."
             serverMessage ==
                 IF BodyTruthy(errorData)
                 THEN <<Or(Field(errorData, "textResponse"),
                           Or(Field(errorData, "titleResponse"), fallback))>>
                      \o Details(errorData, " (code: ")
                 ELSE <<Or(error.message[1], fallback)>>
         IN  <<SessionPrefix>> \o serverMessage
    ELSE IF \/ StartsWith(error.message, SdkPrefix)
            \/ StartsWith(error.message, AuthPrefix)
            \/ StartsWith(error.message, SessionPrefix)
    THEN error.message
    ELSE <<SessionPrefix>> \o error.message

\* src/server/index.ts
ConfigurationError_srv(config) ==
    IF ~Truthy(config.publicKey) \/ ~Truthy(config.privateKey)
    THEN <<"ePayco Public Key and Private Key are required.">>
    ELSE IF ~BodyTruthy(config.paymentDetails)
    THEN <<"Payment details are required.">>
    ELSE NoError

SessionTry_srv(resp) ==
    LET posted == AxiosPost(resp) IN
    IF posted.kind = "throw" THEN posted
    ELSE LET body == posted.value IN
         IF body.t = "null" THEN Throws(TypeErrorOn("null", "success"))
         ELSE IF Field(body, "success") = "true"
         THEN IF DataOf(body).t = "object"
              THEN Returns(DataOf(body).sessionId)
              ELSE Throws(TypeErrorOn("undefined", "sessionId"))
         ELSE LET errorMessage ==
                      Or(Field(body, "textResponse"),
                         Or(Field(body, "titleResponse"),
                            "ePayco session creation failed."))
              IN  Throws(PlainErr(<<SessionPrefix, errorMessage>>
                                  \o Details(body, " (code: ")))

SessionCatch_srv(error) ==
    IF error.axios
    THEN LET errorData == error.data
             serverMessage ==
                 Or(Field(errorData, "textResponse"),
                    Or(Field(errorData, "titleResponse"),
                       "Network error or ePayco server issue during session creation."))
         IN  <<SessionPrefix, serverMessage>> \o Details(errorData, " (code: ")
    ELSE <<SessionPrefix>> \o error.message

----------------------------------------------------------------------------
(* The canonicalizer's callers: well-formed EpaycoPaymentDetails values    *)
(* (server/types.ts) and a boolean test-mode flag.                         *)

MaxReceivers == 2
MaxExtras == 2

OptionalOf(values) == {NoBody} \cup values

BillingDetails ==
    [t : {"object"},
     email : {Str(<<"A", "@", "b", ".", "C", "o">>)},
     name : {Str(<<"A", "n", "a">>), Str(<<"a", "n", "a", " ", "B">>)},
     address : {Str(<<"C", "l", " ", "9">>)},
     typeDoc : {Str(<<"C", "C">>), Str(<<"c", "e">>)},
     numberDoc : {Str(<<"1", "0", "2">>)},
     callingCode : OptionalOf({Str(<<"+", "5", "7">>)}),
     mobilePhone : {Str(<<"3", "0", "0">>)}]

BaseBilling ==
    [t |-> "object",
     email |-> Str(<<"A", "@", "b", ".", "C", "o">>),
     name |-> Str(<<"A", "n", "a">>),
     address |-> Str(<<"C", "l", " ", "9">>),
     typeDoc |-> Str(<<"C", "C">>),
     numberDoc |-> Str(<<"1", "0", "2">>),
     callingCode |-> NoBody,
     mobilePhone |-> Str(<<"3", "0", "0">>)]

\* a details value with every optional part left out
BaseDetails ==
    [t |-> "object",
     name |-> Str(<<"T", "e", "e">>),
     description |-> Str(<<"R", "e", "d", " ", "t", "e", "e">>),
     currency |-> Str(<<"c", "o", "p">>),
     amount |-> Num(5000),
     country |-> Str(<<"c", "o">>),
     lang |-> Str(<<"e", "s">>),
     ip |-> Str(<<"1", "0", ".", "0", ".", "0", ".", "1">>),
     confirmationUrl |-> Str(<<"/", "A", "p", "i", "/", "c">>),
     responseUrl |-> Str(<<"/", "O", "k">>),
     billing |-> BaseBilling,
     invoice |-> NoBody,
     taxBase |-> NoBody,
     tax |-> NoBody,
     taxIco |-> NoBody,
     methodsDisable |-> NoBody,
     splitPayment |-> NoBody,
     extras |-> NoBody]

ScalarDetails ==
    {[BaseDetails EXCEPT !.name = n, !.description = d, !.currency = cu,
                         !.amount = a, !.country = co, !.lang = l, !.billing = b] :
        n \in {Str(<<"T", "e", "e">>), Str(<<"m", "U", "g">>)},
        d \in {Str(<<"R", "e", "d", " ", "t", "e", "e">>), Str(<<>>)},
        cu \in {Str(<<"c", "o", "p">>), Str(<<"C", "O", "P">>), Str(<<"U", "s", "d">>)},
        a \in {Num(0), Num(12), Num(5000)},
        co \in {Str(<<"c", "o">>), Str(<<"C", "O">>)},
        l \in {Str(<<"e", "s">>), Str(<<"E", "n">>)},
        b \in BillingDetails}

MethodLists ==
    {<<>>, <<Str(<<"T", "D", "C">>)>>,
     <<Str(<<"T", "D", "C">>), Str(<<"p", "s", "e">>)>>,
     <<Str(<<"p", "s", "e">>), Str(<<"T", "D", "C">>)>>}

OptionalDetails ==
    {[BaseDetails EXCEPT !.invoice = i, !.taxBase = tb, !.tax = tx,
                         !.taxIco = ti, !.methodsDisable = md] :
        i \in OptionalOf({Str(<<>>), Str(<<"I", "n", "v", "-", "1">>)}),
        tb \in OptionalOf({Num(0), Num(100)}),
        tx \in OptionalOf({Num(0), Num(19)}),
        ti \in OptionalOf({Num(8)}),
        md \in OptionalOf({Arr(m) : m \in MethodLists})}

SplitReceivers ==
    {[t |-> "object", merchantId |-> p[1], amount |-> p[2],
      taxBase |-> tb, tax |-> tx, fee |-> f] :
        p \in {<<Num(11), Num(30)>>, <<Num(22), Num(0)>>},
        tb \in OptionalOf({Num(5)}),
        tx \in OptionalOf({Num(0)}),
        f \in OptionalOf({Num(2)})}

SplitTypes ==
    {Str(<<"p", "e", "r", "c", "e", "n", "t", "a", "g", "e">>),
     Str(<<"f", "i", "x", "e", "d">>)}

\* EpaycoSplitPayment
SplitPayment(type, receivers) ==
    [t |-> "object", type |-> type, receivers |-> Arr(receivers)]

\* EpaycoExtras values; a caller not held by the types may pass null
ExtraValues == {NullBody, Str(<<>>), Str(<<"A", "1">>)}

SlotSets == {S \in SUBSET (1..10) : Cardinality(S) <= MaxExtras}

\* the slots of S as a sequence, ascending
RECURSIVE SlotsAscending(_)
SlotsAscending(S) ==
    IF S = {} THEN <<>>
    ELSE LET m == CHOOSE x \in S : \A y \in S : x <= y
         IN  <<m>> \o SlotsAscending(S \ {m})

Reversed(s) == [n \in 1..Len(s) |-> s[Len(s) + 1 - n]]

\* an extras object literal with the slots of S, written in the given order
ExtrasObject(order, f) == Obj([n \in 1..Len(order) |-> Entry(ExtraKey(order[n]), f[order[n]])])

\* keys a caller not held by the types may put into extras: slots outside
\* 1..10 and names of core fields of the body
ForeignKeyOrder == <<"extra0", "extra11", "amount", "test", "confirmation">>

ForeignValue == Str(<<"9", "9">>)

\* an extras object with the foreign keys of F and, unless slot is 0, that
\* slot between them
ForeignExtras(F, slot) ==
    LET Chosen(k) == k \in F
        keys == SelectSeq(ForeignKeyOrder, Chosen)
        foreign == [n \in 1..Len(keys) |-> Entry(keys[n], ForeignValue)]
    IN  Obj(IF slot = 0 THEN foreign
            ELSE IF foreign = <<>> THEN <<Entry(ExtraKey(slot), Str(<<"A", "1">>))>>
            ELSE <<Head(foreign), Entry(ExtraKey(slot), Str(<<"A", "1">>))>> \o Tail(foreign))

\* details that use several optional parts at once
CombinedDetails ==
    {[BaseDetails EXCEPT !.invoice = i, !.methodsDisable = md,
                         !.splitPayment = s, !.extras = e] :
        i \in OptionalOf({Str(<<"I", "n", "v", "-", "1">>)}),
        md \in OptionalOf({Arr(<<Str(<<"T", "D", "C">>)>>)}),
        s \in OptionalOf({SplitPayment(ty, <<r>>) : ty \in SplitTypes, r \in SplitReceivers}),
        e \in OptionalOf({ExtrasObject(<<10, 5>>, [n \in {5, 10} |-> Str(<<"A", "1">>)])})}

\* the details of one call: the required fields varied, the optional fields
\* varied, a split payment of up to MaxReceivers receivers, an extras object
\* with up to MaxExtras slots written in either order, an extras object with
\* keys besides the ten slots, or several at once
MapInit ==
    /\ \/ mDetails \in ScalarDetails
       \/ mDetails \in OptionalDetails
       \/ \E n \in 0..MaxReceivers : \E receivers \in [1..n -> SplitReceivers] :
             \E type \in SplitTypes :
                mDetails = [BaseDetails EXCEPT !.splitPayment = SplitPayment(type, receivers)]
       \/ \E S \in SlotSets : \E f \in [S -> ExtraValues] :
             \E order \in {SlotsAscending(S), Reversed(SlotsAscending(S))} :
                mDetails = [BaseDetails EXCEPT !.extras = ExtrasObject(order, f)]
       \/ \E F \in SUBSET {ForeignKeyOrder[n] : n \in 1..Len(ForeignKeyOrder)} :
             \E slot \in {0, 1, 10} :
                mDetails = [BaseDetails EXCEPT !.extras = ForeignExtras(F, slot)]
       \/ mDetails \in CombinedDetails
    /\ mTest \in BOOLEAN
    /\ mBody = Pending
    /\ VerifyIdle
    /\ SessionIdle
    /\ ClientIdle

\* the canonicalizer is applied to the arguments
MapCall ==
    /\ mBody = Pending
    /\ mBody' = Returns(mapPaymentDetailsToEpaycoRequest(mDetails, Bool(mTest)))
    /\ UNCHANGED <<mDetails, mTest>>
    /\ UNCHANGED <<verifyVars, sessionVars, clientVars>>

MapNext == MapCall

SpecMap == MapInit /\ [][MapNext]_vars

----------------------------------------------------------------------------
(* The session side as a state machine: the merchant backend invokes       *)
(* createEpaycoSession, and the gateway answers the two POSTs.             *)

MaxErrors == 2

\* the two variants of the server module: "sdk" is the one that also exports
\* validateEpaycoSignature, "srv" is src/server/index.ts (the _srv operators)
Impls == {"sdk", "srv"}

OptText(s) == {None, "", s}

Configs ==
    [publicKey : OptText("pk_test"),
     privateKey : OptText("sk_test"),
     paymentDetails : {NoBody, BaseDetails},
     isTestMode : BOOLEAN,
     epaycoApiBaseUrl : {None, "https://sandbox.example"}]

\* EpaycoLoginResponse: the token is a field of a successful response, the
\* other four of an error response
LoginObjects(tokens, texts, titles) ==
    [t : {"object"},
     token : tokens,
     error : OptText("Invalid client"),
     textResponse : texts,
     titleResponse : titles,
     message : OptText("login message")]

LoginBodies ==
    {NullBody, EmptyBody}
    \cup LoginObjects({None, ""}, OptText("login text"), OptText("login title"))
    \cup LoginObjects({"tok-a", "tok-b"}, {None}, {None})

LoginErrorBodies ==
    {NullBody, EmptyBody}
    \cup LoginObjects({None}, OptText("login text"), OptText("login title"))

LoginResponses ==
    [kind : {"2xx"}, data : LoginBodies, axiosMessage : {None}]
    \cup
    [kind : {"http-error"}, data : LoginErrorBodies,
     axiosMessage : {"", "Request failed with status code 401"}]
    \cup
    [kind : {"network-error"}, data : {NoBody}, axiosMessage : {"", "Network Error"}]

\* EpaycoSessionApiResponse
ErrorEntries ==
    {[codError |-> 101, errorMessage |-> "field required"],
     [codError |-> 102, errorMessage |-> "field invalid"]}

ErrorLists == UNION {[1..n -> ErrorEntries] : n \in 0..MaxErrors}

SessionData ==
    {NoBody}
    \cup [t : {"object"},
          sessionId : OptText("sess-a"),
          errors : {NoBody} \cup {[t |-> "array", list |-> l] : l \in ErrorLists}]

SessionBodies(successes) ==
    {NullBody, EmptyBody}
    \cup [t : {"object"},
          success : successes,
          textResponse : OptText("session text"),
          titleResponse : OptText("session title"),
          data : SessionData]

\* an AxiosError carries an EpaycoSessionApiErrorResponse (success: false)
SessionResponses ==
    [kind : {"2xx"}, data : SessionBodies({None, "true", "false"}),
     axiosMessage : {None}]
    \cup
    [kind : {"http-error"}, data : SessionBodies({None, "false"}),
     axiosMessage : {"", "Request failed with status code 400"}]
    \cup
    [kind : {"network-error"}, data : {NoBody}, axiosMessage : {"", "Network Error"}]

NoResponse == [kind |-> "none"]

\* an invocation that has been given its config and has not run yet
StartState(m, c) ==
    [impl |-> m, config |-> c, pc |-> "start", token |-> None,
     resp |-> NoResponse, authError |-> NoError, failedAt |-> None,
     result |-> Pending]

StartStates == {StartState(m, c) : m \in Impls, c \in Configs}

Resolved(sessionId) == [kind |-> "resolved", sessionId |-> sessionId]
Rejected(message) == [kind |-> "rejected", message |-> message]

ConfigurationErrorOf(impl, config) ==
    IF impl = "srv" THEN ConfigurationError_srv(config) ELSE ConfigurationError(config)

AuthTokenOf(impl, resp) ==
    IF impl = "srv" THEN getEpaycoAuthToken_srv(resp) ELSE getEpaycoAuthToken(resp)

SessionTryOf(impl, resp) ==
    IF impl = "srv" THEN SessionTry_srv(resp) ELSE SessionTry(resp)

SessionCatchOf(impl, error) ==
    IF impl = "srv" THEN SessionCatch_srv(error) ELSE SessionCatch(error)

Init ==
    /\ inv \in [{1} -> StartStates]
    /\ net = <<>>
    /\ VerifyIdle
    /\ MapIdle
    /\ ClientIdle

\* createEpaycoSession is called: it runs up to its first await, which is
\* the login POST inside getEpaycoAuthToken, unless a precondition throws
Invoke(i) ==
    /\ inv[i].pc = "start"
    /\ LET s == inv[i]
           error == ConfigurationErrorOf(s.impl, s.config)
       IN  IF error # NoError
           THEN /\ inv' = [inv EXCEPT ![i] = [s EXCEPT !.pc = "rejected",
                                                        !.failedAt = "precondition",
                                                        !.result = Rejected(error)]]
                /\ net' = net
           ELSE /\ inv' = [inv EXCEPT ![i] = [s EXCEPT !.pc = "login"]]
                /\ net' = net \o LoginRequests(i, s.config)
    /\ UNCHANGED <<verifyVars, mapVars, clientVars>>

\* the login POST settles: getEpaycoAuthToken returns the token and
\* createEpaycoSession goes on to the session POST, or it throws and the
\* catch block of createEpaycoSession rethrows
LoginSettles(i, resp) ==
    /\ inv[i].pc = "login"
    /\ LET s == inv[i]
           auth == AuthTokenOf(s.impl, resp)
       IN  IF auth.kind = "return"
           THEN /\ inv' = [inv EXCEPT ![i] = [s EXCEPT !.pc = "session",
                                                        !.resp = resp,
                                                        !.token = auth.value]]
                /\ net' = Append(net, SessionPost(i, s.config, auth.value))
           ELSE /\ inv' = [inv EXCEPT ![i] =
                      [s EXCEPT !.pc = "rejected",
                                !.resp = resp,
                                !.authError = auth.error.message,
                                !.failedAt = "login",
                                !.result = Rejected(SessionCatchOf(s.impl, auth.error))]]
                /\ net' = net
    /\ UNCHANGED <<verifyVars, mapVars, clientVars>>

LoginResponds(i) == \E resp \in LoginResponses : LoginSettles(i, resp)

\* the session POST settles: createEpaycoSession resolves with the session id
\* or rejects
SessionSettles(i, resp) ==
    /\ inv[i].pc = "session"
    /\ LET s == inv[i]
           tried == SessionTryOf(s.impl, resp)
       IN  inv' = [inv EXCEPT ![i] =
               IF tried.kind = "return"
               THEN [s EXCEPT !.pc = "resolved", !.resp = resp,
                              !.result = Resolved(tried.value)]
               ELSE [s EXCEPT !.pc = "rejected", !.resp = resp,
                              !.failedAt = "session",
                              !.result = Rejected(SessionCatchOf(s.impl, tried.error))]]
    /\ net' = net
    /\ UNCHANGED <<verifyVars, mapVars, clientVars>>

SessionResponds(i) == \E resp \in SessionResponses : SessionSettles(i, resp)

Invocation == \E i \in DOMAIN inv : Invoke(i)
LoginResponse == \E i \in DOMAIN inv : LoginResponds(i)
SessionResponse == \E i \in DOMAIN inv : SessionResponds(i)

Next == Invocation \/ LoginResponse \/ SessionResponse

Spec == Init /\ [][Next]_vars

----------------------------------------------------------------------------
(* Several createEpaycoSession invocations in flight at once, in one       *)
(* process: each was called with its own config and awaits its own axios   *)
(* promises, which settle in any order.                                    *)

MaxInvocations == 2

OrderA ==
    [publicKey |-> "pk_test", privateKey |-> "sk_test",
     paymentDetails |-> BaseDetails, isTestMode |-> TRUE,
     epaycoApiBaseUrl |-> None]

OrderB ==
    [OrderA EXCEPT !.paymentDetails =
                       [BaseDetails EXCEPT !.name = Str(<<"m", "U", "g">>),
                                           !.amount = Num(12)],
                   !.isTestMode = FALSE]

ConcurrentConfigs == {OrderA, OrderB, [OrderA EXCEPT !.publicKey = None]}

\* the configs of the i-th of several concurrent calls: calls next to each
\* other are for different orders, and any of them may lack its public key
ConfigsOfCall(i) ==
    LET order == IF i % 2 = 1 THEN OrderA ELSE OrderB
    IN  {order, [order EXCEPT !.publicKey = None]}

\* a token, another token, a 2xx without body, no answer at all
ConcurrentLoginResponses ==
    {r \in LoginResponses :
        \/ /\ r.kind = "2xx"
           /\ r.data.t = "object"
           /\ r.data.token \in {"tok-a", "tok-b"}
           /\ r.data.error = None
           /\ r.data.message = None
        \/ r.kind = "2xx" /\ r.data = EmptyBody
        \/ r.kind = "network-error" /\ r.axiosMessage = "Network Error"}

SessionCreated(sessionId) ==
    [kind |-> "2xx",
     data |-> [t |-> "object", success |-> "true", textResponse |-> None,
               titleResponse |-> None,
               data |-> [t |-> "object", sessionId |-> sessionId, errors |-> NoBody]],
     axiosMessage |-> None]

ConcurrentSessionResponses ==
    {SessionCreated("sess-a"), SessionCreated("sess-b"),
     [kind |-> "http-error", data |-> EmptyBody,
      axiosMessage |-> "Request failed with status code 400"]}

ConcurrentInit ==
    /\ \E m \in Impls :
         /\ inv \in [1..MaxInvocations ->
                       {StartState(m, c) : c \in ConfigsOfCall(1) \cup ConfigsOfCall(2)}]
         /\ \A i \in 1..MaxInvocations : inv[i].config \in ConfigsOfCall(i)
    /\ net = <<>>
    /\ VerifyIdle
    /\ MapIdle
    /\ ClientIdle

ConcurrentLoginResponse ==
    \E i \in DOMAIN inv : \E resp \in ConcurrentLoginResponses : LoginSettles(i, resp)

ConcurrentSessionResponse ==
    \E i \in DOMAIN inv : \E resp \in ConcurrentSessionResponses : SessionSettles(i, resp)

ConcurrentNext == Invocation \/ ConcurrentLoginResponse \/ ConcurrentSessionResponse

SpecConcurrent == ConcurrentInit /\ [][ConcurrentNext]_vars

----------------------------------------------------------------------------
(* A server process that uses both exports of the module: its webhook      *)
(* endpoint verifies one confirmation after another (ePayco repeats a      *)
(* confirmation it got no answer to) while a createEpaycoSession           *)
(* invocation is under way.                                                *)

MaxVerifyCalls == 3

SignedMaterial ==
    [p_cust_id_cliente |-> <<"1", "2", "3">>, p_key |-> <<"a", "b", "c">>,
     x_ref_payco |-> <<"9", "9", "9">>, x_transaction_id |-> <<"7", "7">>,
     x_amount |-> <<"5", "0", "0", "0">>, x_currency_code |-> <<"C", "O", "P">>]

\* a genuine confirmation, the same with its digest in upper case, one whose
\* amount was changed after signing, and one that lost its key
RepeatRequests ==
    {[sig |-> calculatedSignature(SignedMaterial), mat |-> SignedMaterial],
     [sig |-> UpperHex(calculatedSignature(SignedMaterial)), mat |-> SignedMaterial],
     [sig |-> calculatedSignature(SignedMaterial),
      mat |-> [SignedMaterial EXCEPT !.x_amount = <<"0">>]],
     [sig |-> calculatedSignature(SignedMaterial),
      mat |-> [SignedMaterial EXCEPT !.p_key = Undefined]]}

RepeatInit ==
    /\ \E r \in RepeatRequests : vSig = r.sig /\ vMat = r.mat
    /\ vOut = Pending
    /\ vBase = NoBase
    /\ vTampers = 0
    /\ vLog = <<>>
    /\ inv \in [{1} -> {StartState("sdk", c) : c \in ConcurrentConfigs}]
    /\ net = <<>>
    /\ MapIdle
    /\ ClientIdle

\* the endpoint receives its next confirmation, which may be one it has
\* seen before
NextConfirmation ==
    /\ vOut # Pending
    /\ Len(vLog) < MaxVerifyCalls
    /\ \E r \in RepeatRequests : vSig' = r.sig /\ vMat' = r.mat
    /\ vOut' = Pending
    /\ UNCHANGED <<vBase, vTampers, vLog>>
    /\ UNCHANGED <<sessionVars, mapVars, clientVars>>

RepeatNext ==
    \/ VerifyCall
    \/ NextConfirmation
    \/ Invocation
    \/ ConcurrentLoginResponse
    \/ ConcurrentSessionResponse

SpecRepeat == RepeatInit /\ [][RepeatNext]_vars

----------------------------------------------------------------------------
(* Confirmations whose fields may hold the separator: every field is a     *)
(* string, the key and the customer id are the merchant's, the other four  *)
(* are whatever the request carried.  A confirmation that verified is      *)
(* presented again with the same signature and other field values.         *)

MaxResubmits == 1

CaretMaterials ==
    [p_cust_id_cliente : {<<"1">>},
     p_key : {<<"a">>, <<"a", "^">>},
     x_ref_payco : {<<"9">>, <<"^", "9">>, <<"9", "^", "7">>},
     x_transaction_id : {<<"7">>, <<"7", "^", "5">>},
     x_amount : {<<"5">>, <<"^", "5">>},
     x_currency_code : {<<"C">>}]

\* the sender signed the material it sent
CaretInit ==
    /\ vMat \in CaretMaterials
    /\ vSig = calculatedSignature(vMat)
    /\ vOut = Pending
    /\ vBase = NoBase
    /\ vTampers = 0
    /\ vLog = <<>>
    /\ SessionIdle
    /\ MapIdle
    /\ ClientIdle

\* the same signature arrives with other field values
Resubmit ==
    /\ vOut # Pending
    /\ Len(vLog) <= MaxResubmits
    /\ vMat' \in CaretMaterials \ {vMat}
    /\ vOut' = Pending
    /\ UNCHANGED <<vSig, vBase, vTampers, vLog>>
    /\ UNCHANGED <<sessionVars, mapVars, clientVars>>

CaretNext == VerifyCall \/ Resubmit

SpecCaret == CaretInit /\ [][CaretNext]_vars

----------------------------------------------------------------------------
(* The browser side: loadEpaycoScript, in the two variants the repository  *)
(* carries ("sdk": the client module with the documented declarations,     *)
(* "cli": src/client/index.ts).  The page either has no checkout script or *)
(* carries one its author added that has loaded; window.ePayco changes     *)
(* only when a script executes.                                            *)

MaxLoadCalls == 3

ClientImpls == {"sdk", "cli"}

EPAYCO_SCRIPT_ID == "epayco-checkout-script"

\* what window.ePayco can be: undefined, an object without checkout, one
\* whose checkout has no configure function, or the complete library
WindowStates == {"undefined", "no-checkout", "no-configure", "ready"}

\* window.ePayco?.checkout
CheckoutAvailable(window) == window \in {"no-configure", "ready"}

\* document.getElementById(EPAYCO_SCRIPT_ID): the first element with the id,
\* as a position in the document, 0 for null
getElementById(document) == IF document = <<>> THEN 0 ELSE 1

\* a loader that forgets to consult the memo
LoadPath_noMemo(memo, document, window) ==
    IF getElementById(document) # 0 /\ CheckoutAvailable(window) THEN "resolved"
    ELSE "load"

\* which of its three ways loadEpaycoScript takes: return the memo, return
\* Promise.resolve(), or create the promise and append a script
LoadPath(memo, document, window) ==
    IF memo # 0 THEN "memo"
    ELSE IF getElementById(document) # 0 /\ CheckoutAvailable(window) THEN "resolved"
    ELSE "load"

\* the test script.onload makes
OnloadSucceeds(impl, window) ==
    IF impl = "sdk" THEN window = "ready" ELSE CheckoutAvailable(window)

\* a failure handler that leaves the memo as it is
MemoAfterFailure_kept(memo) == memo

\* epaycoLoadPromise = null in the failure branches
MemoAfterFailure(memo) == 0

\* document.getElementById(EPAYCO_SCRIPT_ID)?.remove()
RemoveFirst(document) == IF document = <<>> THEN document ELSE Tail(document)

\* the document after script.onload found the library unusable: only one
\* variant removes the element
DocumentAfterMalformed(impl, document) ==
    IF impl = "sdk" THEN RemoveFirst(document) ELSE document

PendingPromise == [state |-> "pending"]
Fulfilled(n) == [state |-> "fulfilled", after |-> n]
RejectedPromise(n) == [state |-> "rejected", after |-> n]

ScriptElement(owner, promise) ==
    [id |-> EPAYCO_SCRIPT_ID, owner |-> owner, promise |-> promise, state |-> "loading"]

\* the promise of the script load in flight, 0 when there is none
LoadInFlight ==
    IF \E n \in 1..Len(dom) : dom[n].state = "loading"
    THEN dom[CHOOSE n \in 1..Len(dom) : dom[n].state = "loading"].promise
    ELSE 0

ClientInit ==
    /\ clientImpl \in ClientImpls
    /\ epaycoLoadPromise = 0
    /\ promises = <<>>
    /\ \/ dom = <<>> /\ ePayco = "undefined"
       \/ /\ dom = <<[ScriptElement("page", 0) EXCEPT !.state = "loaded"]>>
          /\ ePayco = "ready"
    /\ calls = <<>>
    /\ opens = <<>>
    /\ native = <<>>
    /\ VerifyIdle
    /\ SessionIdle
    /\ MapIdle

\* a continuation of an await runs before the next event or call: an
\* openEpaycoCheckout invocation whose awaited promise has settled resumes
\* before anything else happens
NoContinuationRunnable ==
    \A o \in 1..Len(opens) :
        opens[o].pc = "awaiting" => promises[opens[o].awaits].state = "pending"

\* the body of loadEpaycoScript in a browser: what one call does to the
\* memo, the promises and the document, and the promise it returns
loadEpaycoScript ==
       LET path == LoadPath(epaycoLoadPromise, dom, ePayco)
           fresh == Len(promises) + 1
       IN  CASE path = "memo" ->
                  /\ calls' = Append(calls, [ret |-> epaycoLoadPromise, appended |-> FALSE,
                                             during |-> LoadInFlight])
                  /\ UNCHANGED <<epaycoLoadPromise, promises, dom>>
             [] path = "resolved" ->
                  /\ promises' = Append(promises, Fulfilled(Len(calls)))
                  /\ calls' = Append(calls, [ret |-> fresh, appended |-> FALSE,
                                             during |-> LoadInFlight])
                  /\ UNCHANGED <<epaycoLoadPromise, dom>>
             [] path = "load" ->
                  /\ promises' = Append(promises, PendingPromise)
                  /\ dom' = Append(dom, ScriptElement("sdk", fresh))
                  /\ epaycoLoadPromise' = fresh
                  /\ calls' = Append(calls, [ret |-> fresh, appended |-> TRUE,
                                             during |-> LoadInFlight])

\* a caller invokes loadEpaycoScript()
LoadCall ==
    /\ NoContinuationRunnable
    /\ Len(calls) < MaxLoadCalls
    /\ loadEpaycoScript
    /\ UNCHANGED <<clientImpl, ePayco, opens, native>>
    /\ UNCHANGED <<verifyVars, sessionVars, mapVars>>

\* the script in flight executes, leaving window.ePayco as it defines it, and
\* its onload handler runs
ScriptLoad ==
    /\ NoContinuationRunnable
    /\ \E n \in 1..Len(dom) : \E window \in WindowStates :
         /\ dom[n].state = "loading"
         /\ ePayco' = window
         /\ IF OnloadSucceeds(clientImpl, window)
            THEN /\ promises' = [promises EXCEPT ![dom[n].promise] = Fulfilled(Len(calls))]
                 /\ dom' = [dom EXCEPT ![n].state = "loaded"]
                 /\ UNCHANGED epaycoLoadPromise
            ELSE /\ epaycoLoadPromise' = MemoAfterFailure(epaycoLoadPromise)
                 /\ dom' = DocumentAfterMalformed(clientImpl,
                                                  [dom EXCEPT ![n].state = "malformed"])
                 /\ promises' = [promises EXCEPT ![dom[n].promise] =
                                                     RejectedPromise(Len(calls))]
    /\ UNCHANGED <<clientImpl, calls, opens, native>>
    /\ UNCHANGED <<verifyVars, sessionVars, mapVars>>

\* the script in flight fails to load and its onerror handler runs
ScriptError ==
    /\ NoContinuationRunnable
    /\ \E n \in 1..Len(dom) :
         /\ dom[n].state = "loading"
         /\ dom' = RemoveFirst([dom EXCEPT ![n].state = "failed"])
         /\ epaycoLoadPromise' = MemoAfterFailure(epaycoLoadPromise)
         /\ promises' = [promises EXCEPT ![dom[n].promise] = RejectedPromise(Len(calls))]
    /\ UNCHANGED <<clientImpl, ePayco, calls, opens, native>>
    /\ UNCHANGED <<verifyVars, sessionVars, mapVars>>

(* openEpaycoCheckout, in the same two variants *)

MaxOpens == 1

\* !v for a value that carries its type
JsFalsy(v) ==
    \/ v.t \in {"undefined", "null"}
    \/ v.t = "string" /\ v.v = <<>>
    \/ v.t = "number" /\ v.v = 0
    \/ v.t = "boolean" /\ v.v = FALSE

\* s.trim() === "" for the strings of the model, whose only white space is
\* the space character
TrimIsEmpty(s) == \A k \in 1..Len(s.v) : s.v[k] = " "

\* the arguments a page may pass: nothing, or an object whose sessionId and
\* external may be missing or of the wrong type
OpenParams ==
    {NoBody}
    \cup [t : {"object"},
          sessionId : {NoBody, Str(<<>>), Str(<<" ">>), Str(<<"s", "1">>)},
          external : {NoBody, Bool(TRUE), Bool(FALSE), Str(<<"t", "r", "u", "e">>)}]

\* parameter checks that forget the external flag
ParamsError_sessionIdOnly(params) ==
    IF \/ params.t # "object"
       \/ params.sessionId.t # "string"
       \/ TrimIsEmpty(params.sessionId)
    THEN "sessionId"
    ELSE "none"

\* the checks before the try block: which of them throws, or "none"
ParamsError(params) ==
    IF \/ params.t # "object"
       \/ params.sessionId.t # "string"
       \/ TrimIsEmpty(params.sessionId)
    THEN "sessionId"
    ELSE IF params.external.t # "boolean" THEN "external"
    ELSE "none"

\* src/client/index.ts
ParamsError_cli(params) ==
    IF params.t # "object" \/ JsFalsy(params.sessionId) THEN "sessionId"
    ELSE IF params.external.t # "boolean" THEN "external"
    ELSE "none"

ParamsErrorOf(impl, params) ==
    IF impl = "cli" THEN ParamsError_cli(params) ELSE ParamsError(params)

\* the test after the await: window.ePayco.checkout.configure is there (one
\* variant asks for a function, the other for a truthy value; the library
\* states of the model do not tell these apart)
LibraryUsable(impl, window) == window = "ready"

\* what ePayco's configure may do: return a handler, return an object
\* without openNew, return undefined, or throw
ConfigureOutcomes == {"handler", "no-openNew", "undefined", "throws"}

\* what the handler's openNew may do
OpenNewOutcomes == {"returns", "throws"}

\* a handler test that accepts any object
HandlerUsable_anyObject(returned) == returned.kind \in {"handler", "no-openNew"}

\* handler && typeof handler.openNew === "function"
HandlerUsable(returned) == returned.kind = "handler"

OpenRejected(stage) == [kind |-> "rejected", at |-> stage]
OpenResolved(handler) == [kind |-> "resolved", handler |-> handler]

\* a page calls openEpaycoCheckout(params): the checks run and, if they pass,
\* loadEpaycoScript() is called and awaited
OpenCall ==
    /\ NoContinuationRunnable
    /\ Len(opens) < MaxOpens
    /\ \E params \in OpenParams :
         LET error == ParamsErrorOf(clientImpl, params) IN
         IF error # "none"
         THEN /\ opens' = Append(opens, [params |-> params, pc |-> "rejected",
                                         awaits |-> 0, loadCall |-> 0,
                                         result |-> OpenRejected(error)])
              /\ UNCHANGED <<epaycoLoadPromise, promises, dom, calls>>
         ELSE /\ Len(calls) < MaxLoadCalls
              /\ loadEpaycoScript
              /\ opens' = Append(opens, [params |-> params, pc |-> "awaiting",
                                         awaits |-> calls'[Len(calls')].ret,
                                         loadCall |-> Len(calls'),
                                         result |-> Pending])
    /\ UNCHANGED <<clientImpl, ePayco, native>>
    /\ UNCHANGED <<verifyVars, sessionVars, mapVars>>

\* the awaited promise has settled and the invocation resumes: the rest of
\* the try block, or the catch block
OpenResume ==
    /\ \E o \in 1..Len(opens) :
         LET s == opens[o]
             finish(result) ==
                 opens' = [opens EXCEPT ![o] = [s EXCEPT !.pc = result.kind,
                                                         !.result = result]]
             configured(returned) ==
                 [fn |-> "configure", open |-> o, sessionId |-> s.params.sessionId,
                  external |-> s.params.external, returned |-> returned]
         IN  /\ s.pc = "awaiting"
             /\ promises[s.awaits].state # "pending"
             /\ IF promises[s.awaits].state = "rejected"
                THEN finish(OpenRejected("load")) /\ native' = native
                ELSE IF ~LibraryUsable(clientImpl, ePayco)
                THEN finish(OpenRejected("library")) /\ native' = native
                ELSE \E outcome \in ConfigureOutcomes :
                       LET returned ==
                               IF outcome = "handler"
                               THEN [kind |-> "handler", id |-> Len(native) + 1]
                               ELSE [kind |-> outcome]
                       IN  IF outcome = "throws"
                           THEN /\ native' = Append(native, configured(returned))
                                /\ finish(OpenRejected("configure"))
                           ELSE IF ~HandlerUsable(returned)
                           THEN /\ native' = Append(native, configured(returned))
                                /\ finish(OpenRejected("handler"))
                           ELSE \E opened \in OpenNewOutcomes :
                                  /\ native' = native \o
                                        <<configured(returned),
                                          [fn |-> "openNew", open |-> o, handler |-> returned]>>
                                  /\ IF opened = "returns"
                                     THEN finish(OpenResolved(returned))
                                     ELSE finish(OpenRejected("openNew"))
    /\ UNCHANGED <<clientImpl, epaycoLoadPromise, promises, dom, ePayco, calls>>
    /\ UNCHANGED <<verifyVars, sessionVars, mapVars>>

ClientNext == LoadCall \/ ScriptLoad \/ ScriptError \/ OpenCall \/ OpenResume

SpecClient == ClientInit /\ [][ClientNext]_vars

----------------------------------------------------------------------------
(* Properties of validateEpaycoSignature                                   *)

VerifyInputs == <<vSig>> \o [i \in 1..6 |-> vMat[FieldNames[i]]]

Absent(v) == v = Undefined \/ v = Null

AbsentInputs == {i \in 1..7 : Absent(VerifyInputs[i])}
EmptyInputs == {i \in 1..7 : VerifyInputs[i] = <<>>}

Returned == vOut.kind = "return"

\* the canonical signing string as the gateway's protocol states it
CanonicalSigningString(d) ==
    d.p_cust_id_cliente \o <<"^">> \o d.p_key \o <<"^">> \o d.x_ref_payco
    \o <<"^">> \o d.x_transaction_id \o <<"^">> \o d.x_amount \o <<"^">>
    \o d.x_currency_code

AllSevenPresent == AbsentInputs = {} /\ EmptyInputs = {}

\* C1: validateEpaycoSignature returns true exactly when all seven inputs are
\* present (non-empty) and the received signature equals the lowercase-hex
\* digest of the six fields joined by '^' in the protocol's order; in every
\* other case it returns false.
C1_TrueExactlyOnMatch ==
    Returned =>
        (vOut.value = TRUE <=>
            (AllSevenPresent /\ vSig = Sha256Hex(CanonicalSigningString(vMat))))

\* C2: with exactly one of the seven inputs absent the call returns false and
\* does not throw; an x_amount of "0" counts as present, so with the other six
\* inputs present and a matching digest the call returns true.
C2_MissingFieldSafety ==
    Returned /\ vTampers = 0 =>
        /\ Cardinality(AbsentInputs) = 1 => vOut.value = FALSE
        /\ ( /\ vMat.x_amount = <<"0">>
             /\ AllSevenPresent
             /\ vSig = Sha256Hex(CanonicalSigningString(vMat)) )
           => vOut.value = TRUE

\* C2 witness: x_amount alone is absent and the received signature is the
\* digest of the string an unguarded template literal would build; the call
\* returned false.
C2_Witness ==
    /\ Returned
    /\ AbsentInputs = {6}
    /\ EmptyInputs = {}
    /\ vMat.x_amount = Undefined
    /\ vSig = Sha256Hex(JoinWith(vMat, FieldNames, <<"^">>))
    /\ vOut.value = FALSE

\* C3: if any of the seven inputs is the empty string (x_amount included) the
\* call returns false whatever the other inputs are (no digest comparison can
\* make it true).
C3_EmptyInputRejected ==
    Returned /\ EmptyInputs # {} => vOut.value = FALSE

\* C4: when a call returned true, replacing a single character in one of the
\* six material fields, or in the received signature, makes the call on the
\* altered inputs return false.
C4_TamperSensitivity ==
    (Returned /\ vTampers = 1 /\ vBase.kind = "call" /\ vBase.out.value = TRUE)
        => vOut.value = FALSE

\* C4 witness: a verified message whose x_amount had one character replaced
\* has been verified again.
C4_Witness ==
    /\ Returned
    /\ vTampers = 1
    /\ vBase.kind = "call"
    /\ vBase.out.value = TRUE
    /\ vBase.sig = vSig
    /\ vBase.mat.x_amount # vMat.x_amount
    /\ vOut.value = FALSE

----------------------------------------------------------------------------
(* Properties of createEpaycoSession and getEpaycoAuthToken                *)

Posts(i) == {k \in 1..Len(net) : net[k].call = i}

\* the kind of a failure, as its message shows it to the caller
ConfigurationMessages ==
    {<<SdkPrefix, "Public Key and Private Key are required in CreateEpaycoSessionConfig.">>,
     <<SdkPrefix, "Payment details (paymentDetails) are required in CreateEpaycoSessionConfig.">>,
     <<"ePayco Public Key and Private Key are required.">>,
     <<"Payment details are required.">>}

ErrorKind(message) ==
    IF message \in ConfigurationMessages THEN "ConfigurationError"
    ELSE IF StartsWith(message, AuthPrefix) THEN "AuthenticationFailed"
    ELSE IF StartsWith(message, SessionPrefix) THEN "SessionCreationFailed"
    ELSE "untagged"

Occurrences(message, chunk) ==
    Cardinality({k \in 1..Len(message) : message[k] = chunk})

LastChunk(message) == message[Len(message)]

InvalidConfig(config) ==
    \/ config.publicKey \in {None, ""}
    \/ config.privateKey \in {None, ""}
    \/ config.paymentDetails = NoBody

\* C5: with an empty publicKey, an empty privateKey or missing paymentDetails,
\* createEpaycoSession fails with a configuration error and issues no POST,
\* neither the login nor the session-create one.
C5_PreconditionsBeforeNetwork ==
    \A i \in DOMAIN inv :
        (inv[i].pc # "start" /\ InvalidConfig(inv[i].config)) =>
            /\ inv[i].result.kind = "rejected"
            /\ ErrorKind(inv[i].result.message) = "ConfigurationError"
            /\ Posts(i) = {}

\* C5 witness: a call with both keys but no paymentDetails was rejected and
\* nothing was posted.
C5_Witness ==
    \E i \in DOMAIN inv :
        /\ inv[i].pc = "rejected"
        /\ inv[i].config.publicKey = "pk_test"
        /\ inv[i].config.privateKey = "sk_test"
        /\ inv[i].config.paymentDetails = NoBody
        /\ net = <<>>

SessionAnswered(i) ==
    \/ inv[i].pc = "resolved"
    \/ inv[i].pc = "rejected" /\ inv[i].failedAt = "session"

SessionIdOf(body) == Field(DataOf(body), "sessionId")

\* C6: createEpaycoSession resolves, with the string of data.sessionId, exactly
\* when the session-create response has success === true and a session id;
\* for any other response it fails, and it never resolves with undefined.
C6_ResolvesOnlyWithSessionId ==
    \A i \in DOMAIN inv :
        SessionAnswered(i) =>
            LET body == inv[i].resp.data
                good == /\ Field(body, "success") = "true"
                        /\ SessionIdOf(body) \notin {None, ""}
            IN  /\ inv[i].result.kind = "resolved" <=> good
                /\ inv[i].result.kind = "resolved" =>
                       /\ inv[i].result.sessionId = SessionIdOf(body)
                       /\ inv[i].result.sessionId # None

\* C7: an error an inner step has tagged passes through createEpaycoSession
\* with its message intact: a failure of the Authenticator reaches the caller
\* with exactly the Authenticator's message, and a session-creation failure
\* carries the session-creation prefix once.
C7_TaggedErrorsPassThrough ==
    \A i \in DOMAIN inv :
        inv[i].pc = "rejected" =>
            /\ inv[i].failedAt = "login" => inv[i].result.message = inv[i].authError
            /\ inv[i].failedAt = "session" =>
                   Occurrences(inv[i].result.message, SessionPrefix) = 1

ExpectedKind(step) ==
    CASE step = "precondition" -> "ConfigurationError"
      [] step = "login" -> "AuthenticationFailed"
      [] step = "session" -> "SessionCreationFailed"

\* C8: every failure of createEpaycoSession reaches the caller with the kind of
\* the step that failed: ConfigurationError for a precondition,
\* AuthenticationFailed for the login step, SessionCreationFailed for the
\* session POST or its response; none is untagged or carries another step's
\* kind.
C8_FailureKindByStep ==
    \A i \in DOMAIN inv :
        inv[i].pc = "rejected" =>
            ErrorKind(inv[i].result.message) = ExpectedKind(inv[i].failedAt)

LoginAnswered(i) ==
    \/ inv[i].pc = "session"
    \/ inv[i].pc = "rejected" /\ inv[i].failedAt = "login"

GenericAuthMessages ==
    {"Invalid token or unknown error response during authentication.",
     "Failed to authenticate with ePayco: Invalid token or error response.",
     "Network error or ePayco server issue during authentication."}

\* the first non-empty of error, textResponse, titleResponse, message
FirstDiagnostic(body) ==
    IF body.error \notin {None, ""} THEN body.error
    ELSE IF body.textResponse \notin {None, ""} THEN body.textResponse
    ELSE IF body.titleResponse \notin {None, ""} THEN body.titleResponse
    ELSE IF body.message \notin {None, ""} THEN body.message
    ELSE None

DiagnosticAsClaimed(i) ==
    LET body == inv[i].resp.data
        diagnostic == LastChunk(inv[i].authError)
    IN  /\ ErrorKind(inv[i].authError) = "AuthenticationFailed"
        /\ IF FirstDiagnostic(body) # None
           THEN diagnostic = FirstDiagnostic(body)
           ELSE diagnostic \in GenericAuthMessages

LoginFailedWithBody(i) ==
    /\ inv[i].pc = "rejected"
    /\ inv[i].failedAt = "login"
    /\ inv[i].resp.data.t = "object"

\* C10 as stated: on any authentication failure with a response body, the
\* diagnostic is the first non-empty of error, textResponse, titleResponse,
\* message, else the generic fallback, and the failure is an authentication
\* error.
C10_DiagnosticOrder_AnyFailure ==
    \A i \in DOMAIN inv : LoginFailedWithBody(i) => DiagnosticAsClaimed(i)

\* C10 amended: the same, for the failures where the login call came back
\* with a 2xx response whose body has no usable token.
C10_DiagnosticOrder_2xx ==
    \A i \in DOMAIN inv :
        (LoginFailedWithBody(i) /\ inv[i].resp.kind = "2xx") => DiagnosticAsClaimed(i)

\* C10 witness: a 2xx body with an empty error, no textResponse, a
\* titleResponse and a message failed with the titleResponse as diagnostic.
C10_Witness ==
    \E i \in DOMAIN inv :
        /\ LoginFailedWithBody(i)
        /\ inv[i].resp.kind = "2xx"
        /\ inv[i].resp.data.error = ""
        /\ inv[i].resp.data.textResponse = None
        /\ inv[i].resp.data.titleResponse = "login title"
        /\ inv[i].resp.data.message = "login message"
        /\ LastChunk(inv[i].authError) = "login title"

\* C11: every failure of the Authenticator (transport failure, non-2xx
\* response, 2xx body without a usable token) reaches its caller as one error
\* whose message is the tag 'ePayco Authentication Failed: ' followed by the
\* derived diagnostic, the tag occurring once.
C11_SingleAuthenticationTag ==
    \A i \in DOMAIN inv :
        (inv[i].pc = "rejected" /\ inv[i].failedAt = "login") =>
            /\ StartsWith(inv[i].authError, AuthPrefix)
            /\ Occurrences(inv[i].authError, AuthPrefix) = 1
            /\ Len(inv[i].authError) = 2

----------------------------------------------------------------------------
(* Properties of mapPaymentDetailsToEpaycoRequest                          *)

Mapped == mBody.kind = "return"

\* the entries of the request body returned
Body == mBody.value.entries

\* every leaf below a value is a string; the nesting of a request body is
\* at most body / splitPayment / receivers / receiver / leaf
RECURSIVE AllLeavesAreStrings(_)
AllLeavesAreStrings(v) ==
    CASE v.t = "string" -> TRUE
      [] v.t = "array" -> \A n \in 1..Len(v.list) : AllLeavesAreStrings(v.list[n])
      [] v.t = "object" -> \A n \in 1..Len(v.entries) : AllLeavesAreStrings(v.entries[n].v)
      [] OTHER -> FALSE

\* C12: for well-formed PaymentDetails and a test-mode flag, every leaf of the
\* request body (nested billing, methodsDisable items, splitPayment and each
\* receiver included) is a string; no number or boolean leaf survives.
C12_EveryLeafIsAString == Mapped => AllLeavesAreStrings(mBody.value)

\* C12 witness: details with numeric tax fields were mapped and the body's
\* taxBase is the string "100".
C12_Witness ==
    /\ Mapped
    /\ mDetails.taxBase = Num(100)
    /\ mDetails.tax = Num(0)
    /\ Get(Body, "taxBase") = Str(<<"1", "0", "0">>)
    /\ Get(Body, "tax") = Str(<<"0">>)

BillingPairs ==
    <<<<"nameBilling", "name">>, <<"emailBilling", "email">>,
      <<"addressBilling", "address">>, <<"typeDocBilling", "typeDoc">>,
      <<"numberDocBilling", "numberDoc">>, <<"mobilephoneBilling", "mobilePhone">>>>

\* C13: the six root-level *Billing fields of the body are always emitted and
\* equal the nested billing.name, .email, .address, .typeDoc, .numberDoc,
\* .mobilePhone of the same body.
C13_RootBillingEqualsNested ==
    Mapped =>
        /\ HasKey(Body, "billing")
        /\ \A n \in 1..6 :
              /\ HasKey(Body, BillingPairs[n][1])
              /\ HasKey(Get(Body, "billing").entries, BillingPairs[n][2])
              /\ Get(Body, BillingPairs[n][1])
                    = Get(Get(Body, "billing").entries, BillingPairs[n][2])

\* C13 witness: billing with a lower-case document type and a calling code
\* was mapped; the root typeDocBilling is that document type.
C13_Witness ==
    /\ Mapped
    /\ mDetails.billing.typeDoc = Str(<<"c", "e">>)
    /\ mDetails.billing.callingCode # NoBody
    /\ Get(Body, "typeDocBilling") = Str(<<"c", "e">>)
    /\ Get(Get(Body, "billing").entries, "typeDoc") = Str(<<"c", "e">>)

\* the input's value for slot n: undefined when there is no extras object
ExtraOfInput(n) ==
    IF mDetails.extras.t = "object" THEN Get(mDetails.extras.entries, ExtraKey(n))
    ELSE NoBody

\* where a key sits in the body
Position(entries, k) == CHOOSE n \in 1..Len(entries) : entries[n].k = k

\* C14: for each i in 1..10 the body has key extra<i>, holding the slot's
\* string, exactly when the input slot is present and non-null; the keys
\* emitted are in ascending slot order, and an absent slot leaves no key.
C14_ExtrasBySlot ==
    Mapped =>
        /\ \A n \in 1..10 :
              /\ HasKey(Body, ExtraKey(n)) <=>
                     (ExtraOfInput(n) # NoBody /\ ExtraOfInput(n) # NullBody)
              /\ HasKey(Body, ExtraKey(n)) => Get(Body, ExtraKey(n)) = ExtraOfInput(n)
        /\ \A n, m \in 1..10 :
              (n < m /\ HasKey(Body, ExtraKey(n)) /\ HasKey(Body, ExtraKey(m)))
                  => Position(Body, ExtraKey(n)) < Position(Body, ExtraKey(m))

\* C14 witness: an extras literal that names extra10 before extra5, and no
\* other slot, was mapped: the body has extra5 before extra10 and no extra1.
C14_Witness ==
    /\ Mapped
    /\ mDetails.extras.t = "object"
    /\ Keys(mDetails.extras.entries) = <<"extra10", "extra5">>
    /\ Get(Body, "extra5") = Str(<<"A", "1">>)
    /\ Get(Body, "extra10") = Str(<<>>)
    /\ Position(Body, "extra5") < Position(Body, "extra10")
    /\ ~HasKey(Body, "extra1")

OptionalNames == {"invoice", "taxBase", "tax", "taxIco", "methodsDisable"}

\* C15 as stated: each of invoice, taxBase, tax, taxIco, methodsDisable is in
\* the body exactly when it is present in the input.
C15_OptionalIffPresent ==
    Mapped => \A k \in OptionalNames : HasKey(Body, k) <=> mDetails[k] # NoBody

\* C15 amended: invoice, taxBase, tax and taxIco are in the body exactly when
\* present in the input (an empty invoice and a zero amount included);
\* methodsDisable is in the body exactly when the input has a non-empty list.
\* A field left out leaves no key.
C15_OptionalIffPresentNonEmptyList ==
    Mapped =>
        /\ \A k \in OptionalNames \ {"methodsDisable"} :
              HasKey(Body, k) <=> mDetails[k] # NoBody
        /\ HasKey(Body, "methodsDisable") <=>
              (mDetails.methodsDisable # NoBody /\ mDetails.methodsDisable.list # <<>>)

\* C15 witness: details with taxBase 0, an empty invoice and an empty
\* methodsDisable list were mapped: taxBase "0" and invoice "" are in the
\* body, methodsDisable is not.
C15_Witness ==
    /\ Mapped
    /\ mDetails.taxBase = Num(0)
    /\ mDetails.invoice = Str(<<>>)
    /\ mDetails.methodsDisable = Arr(<<>>)
    /\ mDetails.taxIco = NoBody
    /\ Get(Body, "taxBase") = Str(<<"0">>)
    /\ Get(Body, "invoice") = Str(<<>>)
    /\ ~HasKey(Body, "methodsDisable")
    /\ ~HasKey(Body, "taxIco")

\* a receiver of the body against the receiver of the input it was made from
ReceiverAsClaimed(out, in) ==
    /\ out.t = "object"
    /\ Get(out.entries, "merchantId") = Str(DecimalString(in.merchantId.v))
    /\ Get(out.entries, "amount") = Str(DecimalString(in.amount.v))
    /\ \A k \in {"taxBase", "tax", "fee"} :
          /\ HasKey(out.entries, k) <=> in[k] # NoBody
          /\ HasKey(out.entries, k) => Get(out.entries, k) = Str(DecimalString(in[k].v))

\* C16: with splitPayment present, the body's receivers have the length and
\* order of the input's; for every receiver merchantId and amount are
\* strings of the input numbers, taxBase, tax and fee are so when present and
\* left out when absent; the split type is a string.
C16_SplitPaymentReceivers ==
    (Mapped /\ mDetails.splitPayment # NoBody) =>
        LET split == Get(Body, "splitPayment")
            receivers == Get(split.entries, "receivers")
            given == mDetails.splitPayment.receivers.list
        IN  /\ split.t = "object"
            /\ Get(split.entries, "type") = mDetails.splitPayment.type
            /\ Get(split.entries, "type").t = "string"
            /\ receivers.t = "array"
            /\ Len(receivers.list) = Len(given)
            /\ \A n \in 1..Len(given) : ReceiverAsClaimed(receivers.list[n], given[n])

\* C16 witness: two receivers, the first with a tax of 0 and no fee, the
\* second with a fee and no tax, were mapped in that order.
C16_Witness ==
    /\ Mapped
    /\ mDetails.splitPayment # NoBody
    /\ Len(mDetails.splitPayment.receivers.list) = 2
    /\ LET given == mDetails.splitPayment.receivers.list
           receivers == Get(Get(Body, "splitPayment").entries, "receivers").list
       IN  /\ given[1].merchantId = Num(22) /\ given[1].tax = Num(0) /\ given[1].fee = NoBody
           /\ given[2].merchantId = Num(11) /\ given[2].tax = NoBody /\ given[2].fee = Num(2)
           /\ Get(receivers[1].entries, "merchantId") = Str(<<"2", "2">>)
           /\ Get(receivers[1].entries, "tax") = Str(<<"0">>)
           /\ ~HasKey(receivers[1].entries, "fee")
           /\ Get(receivers[2].entries, "merchantId") = Str(<<"1", "1">>)
           /\ Get(receivers[2].entries, "fee") = Str(<<"2">>)
           /\ ~HasKey(receivers[2].entries, "tax")

\* C17: the body's test field is the string "true" when the test-mode flag is
\* true and the string "false" when it is false, never a boolean, and the
\* body always has checkout_version "2".
C17_TestFlagAndVersion ==
    Mapped =>
        /\ mTest = TRUE => Get(Body, "test") = Str(<<"t", "r", "u", "e">>)
        /\ mTest = FALSE => Get(Body, "test") = Str(<<"f", "a", "l", "s", "e">>)
        /\ Get(Body, "checkout_version") = Str(<<"2">>)

\* C17 witness: the flag false was mapped to the string "false".
C17_Witness ==
    /\ Mapped
    /\ mTest = FALSE
    /\ Get(Body, "test") = Str(<<"f", "a", "l", "s", "e">>)
    /\ Get(Body, "checkout_version") = Str(<<"2">>)

\* out is in with every lower-case letter replaced by its upper-case one
IsUpperCaseOf(out, in) ==
    /\ out.t = "string"
    /\ Len(out.v) = Len(in.v)
    /\ \A k \in 1..Len(in.v) :
          IF \E j \in 1..26 : LowerLetters[j] = in.v[k]
          THEN \E j \in 1..26 : LowerLetters[j] = in.v[k] /\ UpperLetters[j] = out.v[k]
          ELSE out.v[k] = in.v[k]

\* the string of an input scalar: a string as it is, a number in decimal
Stringified(v) == IF v.t = "number" THEN Str(DecimalString(v.v)) ELSE v

\* C18: in the body currency, country and lang are the upper-cased inputs,
\* and every other scalar (ip, name, description, amount, response,
\* confirmation, billing fields, optional fields, extras) is the string of
\* the input with no change of case.
C18_UpperCasedAndVerbatim ==
    Mapped =>
        /\ IsUpperCaseOf(Get(Body, "currency"), mDetails.currency)
        /\ IsUpperCaseOf(Get(Body, "country"), mDetails.country)
        /\ IsUpperCaseOf(Get(Body, "lang"), mDetails.lang)
        /\ Get(Body, "ip") = mDetails.ip
        /\ Get(Body, "name") = mDetails.name
        /\ Get(Body, "description") = mDetails.description
        /\ Get(Body, "amount") = Stringified(mDetails.amount)
        /\ Get(Body, "response") = mDetails.responseUrl
        /\ Get(Body, "confirmation") = mDetails.confirmationUrl
        /\ \A k \in {"email", "name", "address", "typeDoc", "numberDoc", "mobilePhone"} :
              Get(Get(Body, "billing").entries, k) = mDetails.billing[k]
        /\ mDetails.billing.callingCode # NoBody =>
              Get(Get(Body, "billing").entries, "callingCode") = mDetails.billing.callingCode
        /\ \A k \in {"invoice", "taxBase", "tax", "taxIco"} :
              HasKey(Body, k) => Get(Body, k) = Stringified(mDetails[k])
        /\ HasKey(Body, "methodsDisable") =>
              Get(Body, "methodsDisable") = mDetails.methodsDisable
        /\ \A n \in 1..10 :
              HasKey(Body, ExtraKey(n)) => Get(Body, ExtraKey(n)) = ExtraOfInput(n)

\* C18 witness: currency "Usd", country "co" and lang "En" were mapped to
\* "USD", "CO" and "EN" while the name "mUg" and the document type "ce" kept
\* their case.
C18_Witness ==
    /\ Mapped
    /\ mDetails.currency = Str(<<"U", "s", "d">>)
    /\ mDetails.country = Str(<<"c", "o">>)
    /\ mDetails.lang = Str(<<"E", "n">>)
    /\ mDetails.name = Str(<<"m", "U", "g">>)
    /\ mDetails.billing.typeDoc = Str(<<"c", "e">>)
    /\ Get(Body, "currency") = Str(<<"U", "S", "D">>)
    /\ Get(Body, "country") = Str(<<"C", "O">>)
    /\ Get(Body, "lang") = Str(<<"E", "N">>)
    /\ Get(Body, "name") = Str(<<"m", "U", "g">>)
    /\ Get(Get(Body, "billing").entries, "typeDoc") = Str(<<"c", "e">>)

----------------------------------------------------------------------------
(* Properties of loadEpaycoScript                                          *)

\* the call that started the load settling promise p
StarterOf(p) == CHOOSE c \in 1..Len(calls) : calls[c].appended /\ calls[c].ret = p

\* C19: while a load started by a first loadEpaycoScript caller is in flight
\* (script appended, neither onload nor onerror fired), every further call
\* returns the same promise and appends no script element, so at most one
\* load is in flight and all those callers see the first caller's outcome.
C19_SingleFlight ==
    /\ Cardinality({n \in 1..Len(dom) : dom[n].state = "loading"}) <= 1
    /\ \A c \in 1..Len(calls) :
          calls[c].during # 0 =>
              /\ ~calls[c].appended
              /\ \E first \in 1..(c - 1) :
                    /\ calls[first].appended
                    /\ calls[first].ret = calls[c].during
              /\ calls[c].ret = calls[StarterOf(calls[c].during)].ret
              /\ promises[calls[c].ret] = promises[calls[StarterOf(calls[c].during)].ret]

\* C19 witness: three calls were made during one load, the load succeeded,
\* the document holds its one script and the three share a fulfilled promise.
C19_Witness ==
    /\ Len(calls) = 3
    /\ calls[1].appended
    /\ calls[2].during = calls[1].ret
    /\ calls[3].during = calls[1].ret
    /\ calls[2].ret = calls[1].ret
    /\ calls[3].ret = calls[1].ret
    /\ promises[calls[1].ret].state = "fulfilled"
    /\ Len(dom) = 1

Failures == {p \in 1..Len(promises) : promises[p].state = "rejected"}

\* C20: after a failed load (onerror, or onload with the library unusable)
\* the promise its callers awaited is rejected, the memo is null until the
\* next call, and that call starts a fresh load (a new promise and a new
\* script element) instead of returning the rejected promise; no later call
\* returns it either.
C20_FailedLoadIsForgotten ==
    \A p \in Failures :
        LET k == promises[p].after IN
        /\ \E c \in 1..k : calls[c].ret = p
        /\ \A c \in 1..Len(calls) : calls[c].ret = p => c <= k
        /\ epaycoLoadPromise # p
        /\ Len(calls) = k => epaycoLoadPromise = 0
        /\ Len(calls) > k =>
              /\ calls[k + 1].appended
              /\ calls[k + 1].ret > p

\* C20 witness: in src/client/index.ts two callers awaited a load whose
\* onload found no checkout; both see the rejection, and a third call made
\* afterwards appended a script of its own.
C20_Witness ==
    /\ clientImpl = "cli"
    /\ Len(calls) = 3
    /\ calls[1].ret = 1
    /\ calls[2].ret = 1
    /\ promises[1] = RejectedPromise(2)
    /\ ePayco = "no-checkout"
    /\ calls[3].appended
    /\ calls[3].ret = 2
    /\ epaycoLoadPromise = 2

\* the promises that belong to a script load loadEpaycoScript started
LoadPromises == {p \in 1..Len(promises) : \E c \in 1..Len(calls) :
                    calls[c].appended /\ calls[c].ret = p}

\* C21: across any sequence of calls and load outcomes (success, network
\* error, loaded but malformed, retry) the document never holds more than one
\* script element with the id 'epayco-checkout-script', and once a load has
\* succeeded no later call appends another script element.
C21_AtMostOneScriptElement ==
    /\ Cardinality({n \in 1..Len(dom) : dom[n].id = EPAYCO_SCRIPT_ID}) <= 1
    /\ \A c \in 1..Len(calls) :
          calls[c].appended =>
              ~\E p \in LoadPromises :
                  promises[p].state = "fulfilled" /\ promises[p].after < c

\* the arguments C22 speaks of: no sessionId (or no params object at all),
\* an empty sessionId, or an external that is not a boolean
SessionIdMissingOrEmpty(params) ==
    \/ params.t # "object"
    \/ params.sessionId.t = "undefined"
    \/ params.sessionId = Str(<<>>)

ExternalNotBoolean(params) ==
    params.t = "object" /\ params.external.t # "boolean"

NativeCallsOf(o) == {k \in 1..Len(native) : native[k].open = o}

\* C22: openEpaycoCheckout rejects when sessionId is missing or empty or when
\* external is not a boolean; such a call is rejected by the parameter
\* checks, never awaits a script load and never reaches configure or
\* openNew, and the step that makes it leaves the memoised promise, the
\* promises, the document and the record of loadEpaycoScript calls as they
\* were.
C22_InvalidParamsRejectBeforeLoad ==
    /\ [](\A o \in 1..Len(opens) :
            SessionIdMissingOrEmpty(opens[o].params) \/ ExternalNotBoolean(opens[o].params) =>
                /\ opens[o].pc = "rejected"
                /\ opens[o].result.at \in {"sessionId", "external"}
                /\ opens[o].loadCall = 0
                /\ opens[o].awaits = 0
                /\ NativeCallsOf(o) = {})
    /\ [][Len(opens') = Len(opens) + 1 =>
            LET params == opens'[Len(opens')].params IN
            SessionIdMissingOrEmpty(params) \/ ExternalNotBoolean(params) =>
                /\ epaycoLoadPromise' = epaycoLoadPromise
                /\ promises' = promises
                /\ dom' = dom
                /\ calls' = calls
                /\ native' = native]_vars

\* C22 witness: a call with a good sessionId and the string "true" as
\* external was rejected by the external check, while the page had made no
\* loadEpaycoScript call and the document held no script.
C22_Witness ==
    /\ Len(opens) = 1
    /\ opens[1].params.t = "object"
    /\ opens[1].params.sessionId = Str(<<"s", "1">>)
    /\ opens[1].params.external = Str(<<"t", "r", "u", "e">>)
    /\ opens[1].result = OpenRejected("external")
    /\ calls = <<>>
    /\ dom = <<>>
    /\ native = <<>>

ConfigureCallsOf(o) == {k \in NativeCallsOf(o) : native[k].fn = "configure"}
OpenNewCallsOf(o) == {k \in NativeCallsOf(o) : native[k].fn = "openNew"}

\* C27: configure and openNew are called only for an invocation whose
\* awaited loadEpaycoScript promise is fulfilled, and at most once each; an
\* invocation that resolved called configure once and openNew once, on the
\* handler configure returned, and resolved with that handler; an invocation
\* whose load rejected called neither and is rejected; one whose configure
\* returned no handler with openNew never called openNew and is rejected.
C27_LibraryCalledOnlyAfterLoad ==
    \A o \in 1..Len(opens) :
        /\ Cardinality(ConfigureCallsOf(o)) <= 1
        /\ Cardinality(OpenNewCallsOf(o)) <= 1
        /\ NativeCallsOf(o) # {} =>
              /\ opens[o].awaits # 0
              /\ promises[opens[o].awaits].state = "fulfilled"
              /\ opens[o].pc # "awaiting"
        /\ \A k \in OpenNewCallsOf(o) :
              \E c \in ConfigureCallsOf(o) :
                  /\ c < k
                  /\ native[c].returned.kind = "handler"
                  /\ native[k].handler = native[c].returned
        /\ opens[o].pc = "resolved" =>
              /\ Cardinality(OpenNewCallsOf(o)) = 1
              /\ \E c \in ConfigureCallsOf(o) :
                    /\ native[c].returned.kind = "handler"
                    /\ opens[o].result = OpenResolved(native[c].returned)
        /\ (opens[o].awaits # 0 /\ opens[o].pc # "awaiting"
              /\ promises[opens[o].awaits].state = "rejected") =>
              /\ opens[o].pc = "rejected"
              /\ NativeCallsOf(o) = {}
        /\ \A c \in ConfigureCallsOf(o) :
              native[c].returned.kind # "handler" =>
                  /\ opens[o].pc = "rejected"
                  /\ OpenNewCallsOf(o) = {}

\* C27 witness: an invocation awaited a script load another caller had
\* started, the load succeeded, and the invocation resolved with the handler
\* configure returned after calling openNew on it.
C27_Witness ==
    /\ Len(opens) = 1
    /\ Len(calls) >= 2
    /\ calls[1].appended
    /\ opens[1].loadCall = 2
    /\ opens[1].awaits = calls[1].ret
    /\ opens[1].pc = "resolved"
    /\ Len(native) = 2
    /\ native[1].fn = "configure"
    /\ native[1].sessionId = opens[1].params.sessionId
    /\ native[1].external = opens[1].params.external
    /\ native[2].fn = "openNew"
    /\ opens[1].result.handler = native[1].returned

LoginPostsOf(i) == {k \in Posts(i) : net[k].url[2] = LOGIN_PATH}
SessionPostsOf(i) == {k \in Posts(i) : net[k].url[2] = CREATE_SESSION_PATH}

\* C24: an invocation's session-create POST is issued only after its login
\* call returned a token: it follows the login POST on the wire, the
\* invocation holds a non-empty token that the POST carries, and while the
\* POST is unanswered the login response the invocation holds is the 2xx
\* response with that token; an invocation that is still at its login call,
\* or whose login failed, has issued no session-create POST.
C24_SessionPostOnlyAfterToken ==
    \A i \in DOMAIN inv :
        /\ \A k \in SessionPostsOf(i) :
              /\ \E l \in LoginPostsOf(i) : l < k
              /\ inv[i].token \notin {None, ""}
              /\ net[k].authorization = <<"Bearer", inv[i].token>>
              /\ \/ inv[i].pc = "session"
                 \/ inv[i].pc = "resolved"
                 \/ inv[i].pc = "rejected" /\ inv[i].failedAt = "session"
        /\ inv[i].pc = "session" =>
              /\ SessionPostsOf(i) # {}
              /\ inv[i].resp.kind = "2xx"
              /\ inv[i].resp.data.t = "object"
              /\ inv[i].resp.data.token = inv[i].token
        /\ inv[i].pc \in {"start", "login"} => SessionPostsOf(i) = {}
        /\ (inv[i].pc = "rejected" /\ inv[i].failedAt \in {"precondition", "login"}) =>
              SessionPostsOf(i) = {}

\* C24 witness: a login that was answered 401 ended the invocation with the
\* login POST as its only request.
C24_Witness ==
    \E i \in DOMAIN inv :
        /\ inv[i].pc = "rejected"
        /\ inv[i].failedAt = "login"
        /\ inv[i].resp.kind = "http-error"
        /\ Cardinality(LoginPostsOf(i)) = 1
        /\ SessionPostsOf(i) = {}
        /\ Len(net) = 1

PassedPreconditions(i) ==
    /\ inv[i].pc # "start"
    /\ ~(inv[i].pc = "rejected" /\ inv[i].failedAt = "precondition")

AllLoginPosts == {k \in 1..Len(net) : net[k].url[2] = LOGIN_PATH}

\* C25: an invocation that passed the precondition checks has put exactly
\* one login POST and at most one session-create POST on the wire, in every
\* state up to and after its outcome; one that did not has sent nothing; the
\* login POSTs on the wire are as many as the invocations that passed.
C25_OneLoginPerInvocation ==
    /\ \A i \in DOMAIN inv :
          IF PassedPreconditions(i)
          THEN /\ Cardinality(LoginPostsOf(i)) = 1
               /\ Cardinality(SessionPostsOf(i)) <= 1
               /\ Posts(i) = LoginPostsOf(i) \cup SessionPostsOf(i)
          ELSE Posts(i) = {}
    /\ Cardinality(AllLoginPosts) =
           Cardinality({i \in DOMAIN inv : PassedPreconditions(i)})

\* C25 witness: two invocations ran at once and both ended, one on a login
\* that got no answer and one with a session id; the wire shows two login
\* POSTs, sent before either was answered, and one session-create POST.
C25_Witness ==
    /\ Len(net) = 3
    /\ net[1].url[2] = LOGIN_PATH
    /\ net[2].url[2] = LOGIN_PATH
    /\ net[1].call # net[2].call
    /\ net[3].url[2] = CREATE_SESSION_PATH
    /\ \E i, j \in DOMAIN inv :
          /\ inv[i].pc = "rejected"
          /\ inv[i].failedAt = "login"
          /\ inv[i].resp.kind = "network-error"
          /\ inv[j].pc = "resolved"

\* C30: under any interleaving, every session-create POST of an invocation
\* carries the token that invocation holds, which is the token of the login
\* response delivered to it, and the canonicalization of its own
\* paymentDetails and test flag; it resolves with the session id of the
\* response delivered to it; and a step of one invocation changes no other
\* invocation.
C30_OwnTokenBodyAndSession ==
    /\ [](\A i \in DOMAIN inv :
            /\ \A k \in SessionPostsOf(i) :
                  /\ net[k].authorization = <<"Bearer", inv[i].token>>
                  /\ net[k].body =
                        mapPaymentDetailsToEpaycoRequest(inv[i].config.paymentDetails,
                                                         Bool(inv[i].config.isTestMode))
            /\ inv[i].pc = "session" =>
                  /\ inv[i].resp.kind = "2xx"
                  /\ inv[i].token = inv[i].resp.data.token
            /\ inv[i].pc = "resolved" =>
                  /\ inv[i].resp.kind = "2xx"
                  /\ inv[i].result = Resolved(inv[i].resp.data.data.sessionId))
    /\ [][\A i \in DOMAIN inv :
            /\ inv'[i].token # inv[i].token =>
                  /\ inv[i].pc = "login"
                  /\ inv'[i].pc = "session"
                  /\ \A j \in DOMAIN inv : j # i => inv'[j] = inv[j]
                  /\ net' = Append(net, [call |-> i,
                                         url |-> net'[Len(net')].url,
                                         authorization |-> <<"Bearer", inv'[i].resp.data.token>>,
                                         body |-> net'[Len(net')].body])
            /\ inv'[i].config = inv[i].config]_vars

\* C30 witness: two invocations for different orders were answered in the
\* opposite order of their calls: the second got tok-b and posted first, the
\* first got tok-a, each POST carries its own token and its own body, and
\* each resolved with the session id it was answered with.
C30_Witness ==
    /\ Len(net) = 4
    /\ inv[1].config = OrderA
    /\ inv[2].config = OrderB
    /\ net[1].call = 1
    /\ net[2].call = 2
    /\ net[3].call = 2
    /\ net[3].authorization = <<"Bearer", "tok-b">>
    /\ net[4].call = 1
    /\ net[4].authorization = <<"Bearer", "tok-a">>
    /\ net[3].body # net[4].body
    /\ inv[1].result = Resolved("sess-b")
    /\ inv[2].result = Resolved("sess-a")

FieldErrorLabels == {" (field code: ", " (code: "}

\* the entries of list stand in message from position first on, each as its
\* errorMessage, a label, its codError in decimal and a closing bracket,
\* with ", " between one entry and the next
ListedFrom(message, first, list) ==
    /\ first + 5 * Len(list) - 2 <= Len(message)
    /\ \A n \in 1..Len(list) :
          LET at == first + 5 * (n - 1) IN
          /\ message[at] = list[n].errorMessage
          /\ message[at + 1] \in FieldErrorLabels
          /\ message[at + 2] = ToString(list[n].codError)
          /\ message[at + 3] = ")"
          /\ n < Len(list) => message[at + 4] = ", "

EntryTexts == {e.errorMessage : e \in ErrorEntries}

\* C26: when the session step fails on a response that carries a non-empty
\* field-error list, whether a 2xx body or the body of a non-2xx error, the
\* rejection message contains the entries of the list, each with its
\* message and its code, comma-separated, in the order of the list, and
\* holds as many entries as the list has.
C26_FieldErrorsListedInOrder ==
    \A i \in DOMAIN inv :
        (/\ inv[i].pc = "rejected"
         /\ inv[i].failedAt = "session"
         /\ HasFieldErrors(inv[i].resp.data)) =>
            LET message == inv[i].result.message
                list == ErrorsOf(inv[i].resp.data).list
            IN  /\ \E first \in 1..Len(message) : ListedFrom(message, first, list)
                /\ Cardinality({k \in 1..Len(message) : message[k] \in EntryTexts})
                       = Len(list)

\* C26 witness: a 2xx body with success false listed error 102 before error
\* 101, and the message names them in that order after the response's text.
C26_Witness ==
    \E i \in DOMAIN inv :
        /\ inv[i].pc = "rejected"
        /\ inv[i].failedAt = "session"
        /\ inv[i].resp.kind = "2xx"
        /\ inv[i].resp.data.t = "object"
        /\ inv[i].resp.data.success = "false"
        /\ HasFieldErrors(inv[i].resp.data)
        /\ Len(ErrorsOf(inv[i].resp.data).list) = 2
        /\ ErrorsOf(inv[i].resp.data).list[1].codError = 102
        /\ ErrorsOf(inv[i].resp.data).list[2].codError = 101
        /\ \E first \in 1..Len(inv[i].result.message) :
              /\ inv[i].result.message[first] = "field invalid"
              /\ inv[i].result.message[first + 5] = "field required"

\* C28: for one received signature, two materials that differ in at least
\* one of the six fields never both verify, also when field values contain
\* the '^' character.
C28_MaterialIdentifiedUniquely ==
    \A a, b \in 1..Len(vLog) :
        (vLog[a].sig = vLog[b].sig /\ vLog[a].mat # vLog[b].mat) =>
            ~(vLog[a].out.value /\ vLog[b].out.value)

SlotKeys == {ExtraKey(n) : n \in 1..10}

\* the input with every key of extras other than extra1..extra10 taken out
WithoutForeignKeys(details) ==
    IF details.extras.t # "object" THEN details
    ELSE LET IsSlot(e) == e.k \in SlotKeys
         IN  [details EXCEPT !.extras = Obj(SelectSeq(details.extras.entries, IsSlot))]

ForeignKeysOfInput ==
    IF mDetails.extras.t # "object" THEN {}
    ELSE {mDetails.extras.entries[n].k : n \in 1..Len(mDetails.extras.entries)} \ SlotKeys

\* C29: the keys of extras other than extra1..extra10 have no effect on the
\* body: it is the body of the same input without them; such a key is in
\* the body only as the core field of that name, with the core field's own
\* value (amount is the input's amount), and the only keys the body has
\* beyond the input without extras are slots; the call leaves its arguments
\* as they were.
C29_OnlyTheTenSlotsAreCopied ==
    /\ [](Mapped =>
            LET plain == mapPaymentDetailsToEpaycoRequest(
                             [mDetails EXCEPT !.extras = NoBody], Bool(mTest)).entries
            IN  /\ mBody.value =
                       mapPaymentDetailsToEpaycoRequest(WithoutForeignKeys(mDetails),
                                                        Bool(mTest))
                /\ \A k \in ForeignKeysOfInput :
                      HasKey(Body, k) =>
                          /\ Get(Body, k) # String(Get(mDetails.extras.entries, k))
                          /\ Get(Body, k) = Get(plain, k)
                /\ ~HasKey(Body, "extra0")
                /\ ~HasKey(Body, "extra11")
                /\ Get(Body, "amount") = String(mDetails.amount)
                /\ \A n \in 1..Len(Body) :
                      Body[n].k \in SlotKeys \/ HasKey(plain, Body[n].k))
    /\ [][mDetails' = mDetails /\ mTest' = mTest]_vars

\* C29 witness: extras named extra11, amount and test next to extra1; the
\* body has extra1, no extra11, and the amount of the order.
C29_Witness ==
    /\ Mapped
    /\ mDetails.extras.t = "object"
    /\ ForeignKeysOfInput = {"extra11", "amount", "test"}
    /\ Get(mDetails.extras.entries, "amount") = ForeignValue
    /\ Get(Body, "extra1") = Str(<<"A", "1">>)
    /\ ~HasKey(Body, "extra11")
    /\ Get(Body, "amount") = Str(<<"5", "0", "0", "0">>)

====
